---- MODULE Spec2Model ----
(***************************************************************************)
(* The transaction command executor of src/storage/txn/process.rs:         *)
(* Executor::execute and its worker-pool tasks, the read and the write     *)
(* processor, ReleasedLocks, and the ResolveLock read/write continuation.  *)
(*                                                                         *)
(* Collaborators that process.rs only calls (MvccTxn, MvccReader, the      *)
(* engine, the scheduler, the lock manager) appear as the calls made to    *)
(* them (the history variable log) and as what they answer: the answers    *)
(* of the MVCC primitives on the snapshot are the variable mvcc.           *)
(***************************************************************************)
EXTENDS Integers, Sequences, FiniteSets, TLC

\* ------------------------------------------------------------------ bounds

\* The keys of the store are 1..MaxKey; their order is that of the integers.
MaxKey == 3
\* The longest key list (mutations, keys, key_locks) a command of Spec
\* carries; its keys are among 1..MaxLen.
MaxLen == 2
\* The most bytes of modifications one MVCC primitive writes for one key.
MaxKeySize == 3
\* process.rs:27 sets 256 keys per scan; the model scans this many.
RESOLVE_LOCK_BATCH_SIZE == 2
\* mvcc::MAX_TXN_WRITE_SIZE (process.rs:15, used at :732), in the model's
\* bytes: one large key fills it, a whole batch of small keys does not.
MAX_TXN_WRITE_SIZE == 3

Keys == 1 .. MaxKey
\* One key writes little or much.
KeySizes == {1, MaxKeySize}

\* ------------------------------------------------------------- plain data

None == [some |-> FALSE]
Some(v) == [some |-> TRUE, v |-> v]

RECURSIVE SumSizes(_)
SumSizes(ws) == IF ws = <<>> THEN 0 ELSE Head(ws).size + SumSizes(Tail(ws))

RECURSIVE SeqsUpTo(_, _)
\* Sequences over S of length at most n.
SeqsUpTo(S, n) ==
    IF n = 0 THEN {<<>>}
    ELSE LET shorter == SeqsUpTo(S, n - 1)
         IN  shorter \cup {Append(s, x) : s \in {t \in shorter : Len(t) = n - 1}, x \in S}

Distinct(s) == \A i, j \in 1 .. Len(s) : i # j => s[i] # s[j]
Ascending(s) == \A i, j \in 1 .. Len(s) : i < j => s[i] < s[j]
KeySeqs == {s \in SeqsUpTo(1 .. MaxLen, MaxLen) : Distinct(s)}

\* The hash of a key as the lock manager sees it (ReleasedLock.hash).
Hash(k) == 100 + 7 * k

\* ----------------------------------------------------------------- errors

\* MvccError::KeyIsLocked for a key, and any other MvccError.
KeyIsLocked(k) == [err |-> "KeyIsLocked", key |-> k]
MvccOther(k) == [err |-> "MvccOther", key |-> k]
\* txn::Error::from(MvccError), txn::Error::from(engine error), StorageError::from.
TxnError(e) == [err |-> "Txn", of |-> e]
StorageError(e) == [err |-> "Storage", of |-> e]
InvalidTxnTso(start_ts, commit_ts) ==
    [err |-> "InvalidTxnTso", start_ts |-> start_ts, commit_ts |-> commit_ts]

\* --------------------------------------------------------- ProcessResult

Res == [kind |-> "Res"]
MultiRes(results) == [kind |-> "MultiRes", results |-> results]
TxnStatus(lock_ttl, commit_ts) ==
    [kind |-> "TxnStatus", lock_ttl |-> lock_ttl, commit_ts |-> commit_ts]
Locks(locks) == [kind |-> "Locks", locks |-> locks]
MvccKey(mvccinfo) == [kind |-> "MvccKey", mvcc |-> mvccinfo]
MvccStartTs(opt) == [kind |-> "MvccStartTs", mvcc |-> opt]
NextCommand(cmd) == [kind |-> "NextCommand", cmd |-> cmd]
Failed(err) == [kind |-> "Failed", err |-> err]

\* ------------------------------------------------- MvccTxn on a snapshot

\* What one MVCC primitive answers for one key: res is ok, locked
\* (KeyIsLocked) or err (any other error); rel tells whether it released a
\* lock (none, opt: an optimistic one, pess: a pessimistic one); size is
\* the bytes of modifications it added to the transaction.
Outcome(res, rel, size) == [res |-> res, rel |-> rel, size |-> size]
Outcomes ==
    {Outcome("ok", "none", 0), Outcome("locked", "none", 0), Outcome("err", "none", 0)}
    \cup {Outcome("ok", r, s) : r \in {"none", "opt", "pess"}, s \in KeySizes}

\* MvccTxn::new(snapshot, start_ts, fill_cache): no writes, no calls yet.
MvccTxnNew(start_ts) == [start_ts |-> start_ts, writes |-> <<>>, calls |-> <<>>]

\* txn.set_start_ts
TxnSetStartTs(txn, ts) == [txn EXCEPT !.start_ts = ts]

\* One primitive call op(key, arg) answered by outcome o: the call is
\* recorded and the bytes it wrote are added under the current start_ts.
TxnCall(txn, op, key, arg, o) ==
    [txn EXCEPT
        !.calls = Append(@, [op |-> op, key |-> key, arg |-> arg, start_ts |-> txn.start_ts]),
        !.writes = IF o.res = "ok" /\ o.size > 0
                   THEN Append(@, [key |-> key, size |-> o.size, start_ts |-> txn.start_ts,
                                   unlock |-> o.rel # "none"])
                   ELSE @]

\* txn.write_size() and txn.into_modifies()
TxnWriteSize(txn) == SumSizes(txn.writes)
TxnIntoModifies(txn) == txn.writes

\* The Option<ReleasedLock> a releasing primitive returns.
ReleasedOf(key, o) ==
    IF o.rel = "none" THEN None
    ELSE Some([hash |-> Hash(key), pessimistic |-> (o.rel = "pess")])

\* --------------------------------------------------------- ReleasedLocks

\* ReleasedLocks::new
ReleasedLocksNew(start_ts, commit_ts) ==
    [start_ts |-> start_ts, commit_ts |-> commit_ts, hashes |-> <<>>, pessimistic |-> FALSE]

\* A push that keeps the pessimistic flag of the lock pushed last: the
\* variant C6 is tested against.
ReleasedLocksPushLast(rl, lock) ==
    IF lock.some
    THEN [rl EXCEPT !.hashes = Append(@, lock.v.hash), !.pessimistic = lock.v.pessimistic]
    ELSE rl

\* ReleasedLocks::push
ReleasedLocksPush(rl, lock) ==
    IF lock.some
    THEN [rl EXCEPT !.hashes = Append(@, lock.v.hash),
                    !.pessimistic = IF ~@ THEN lock.v.pessimistic ELSE @]
    ELSE rl

\* The calls ReleasedLocks::wake_up makes on the lock manager.
ReleasedLocksWakeUp(rl, lock_mgr) ==
    IF lock_mgr
    THEN << [call |-> "wake_up", start_ts |-> rl.start_ts, hashes |-> rl.hashes,
             commit_ts |-> rl.commit_ts, pessimistic |-> rl.pessimistic] >>
    ELSE << >>

\* --------------------------------------------------------------- Command

\* The request context of a command; process_by_worker stamps its term.
Ctx == [region_id |-> 1, term |-> 0]

\* Command::readonly (storage/mod.rs): the read commands, and a ResolveLock
\* that carries no key_locks yet.
Readonly(cmd) ==
    \/ cmd.type \in {"MvccByKey", "MvccByStartTs", "ScanLock"}
    \/ cmd.type = "ResolveLock" /\ cmd.key_locks = <<>>

\* Command::ts (storage/mod.rs), cached as Task.ts by Task::new.
CmdTs(cmd) ==
    CASE cmd.type \in {"Prewrite", "AcquirePessimisticLock", "Cleanup", "Rollback",
                       "PessimisticRollback", "ResolveLockLite", "TxnHeartBeat",
                       "MvccByStartTs"} -> cmd.start_ts
      [] cmd.type = "Commit" -> cmd.lock_ts
      [] cmd.type = "ScanLock" -> cmd.max_ts
      [] OTHER -> 0

\* Task::new(cid, cmd)
TaskNew(cid, cmd) == [cid |-> cid, tag |-> cmd.type, cmd |-> cmd, ts |-> CmdTs(cmd)]

\* --------------------------------------------------- process_write_impl

\* What process_write_impl hands back: ret is Ok (a WriteResult), Err (an
\* early return) or Panic (a failed assertion); wake_ups are the calls it
\* made on the lock manager, calls the MVCC primitives it invoked, in
\* order; stats_added tells whether statistics.add ran before it returned.
WriteOk(ctx, pr, to_be_write, rows, lock_info, wake_ups, txn) ==
    [ret |-> "Ok", ctx |-> ctx, pr |-> pr, to_be_write |-> to_be_write, rows |-> rows,
     lock_info |-> lock_info, err |-> None, wake_ups |-> wake_ups, calls |-> txn.calls,
     stats_added |-> TRUE]

WriteErr(err, calls) ==
    [ret |-> "Err", ctx |-> Ctx, pr |-> Res, to_be_write |-> <<>>, rows |-> 0,
     lock_info |-> None, err |-> Some(err), wake_ups |-> <<>>, calls |-> calls,
     stats_added |-> FALSE]

WritePanic ==
    [ret |-> "Panic", ctx |-> Ctx, pr |-> Res, to_be_write |-> <<>>, rows |-> 0,
     lock_info |-> None, err |-> None, wake_ups |-> <<>>, calls |-> <<>>,
     stats_added |-> FALSE]

\* The state of a key loop: ret is Ok while it runs, Err once a `?` or a
\* return Err left it.
Loop(txn, locks, released) ==
    [ret |-> "Ok", txn |-> txn, locks |-> locks, released |-> released, err |-> None]
LoopErr(txn, err) ==
    [ret |-> "Err", txn |-> txn, locks |-> <<>>, released |-> None, err |-> Some(err)]

\* e.map_err(Error::from).map_err(StorageError::from) of a KeyIsLocked
LockedResult(key) == [ok |-> FALSE, err |-> StorageError(TxnError(KeyIsLocked(key)))]

RECURSIVE PrewriteLoopFailFast(_, _, _, _, _)
\* Mutation loops that stop at the first KeyIsLocked, as the loop of
\* AcquirePessimisticLock does: the variant C3 is tested against.
PrewriteLoopFailFast(cmd, orc, i, txn, locks) ==
    IF i > Len(cmd.mutations) THEN Loop(txn, locks, None)
    ELSE LET key == cmd.mutations[i]
             o == orc[i]
             t2 == IF cmd.for_update_ts = 0
                   THEN TxnCall(txn, "prewrite", key, 0, o)
                   ELSE TxnCall(txn, "pessimistic_prewrite", key,
                                cmd.is_pessimistic_lock[i], o)
         IN  CASE o.res = "ok" -> PrewriteLoopFailFast(cmd, orc, i + 1, t2, locks)
               [] o.res = "locked" -> Loop(t2, Append(locks, LockedResult(key)), None)
               [] OTHER -> LoopErr(t2, TxnError(MvccOther(key)))

RECURSIVE PrewriteLoop(_, _, _, _, _)
\* The two mutation loops of Command::Prewrite: a KeyIsLocked is collected
\* and the loop goes on; any other error returns.
PrewriteLoop(cmd, orc, i, txn, locks) ==
    IF i > Len(cmd.mutations) THEN Loop(txn, locks, None)
    ELSE LET key == cmd.mutations[i]
             o == orc[i]
             t2 == IF cmd.for_update_ts = 0
                   THEN TxnCall(txn, "prewrite", key, 0, o)
                   ELSE TxnCall(txn, "pessimistic_prewrite", key,
                                cmd.is_pessimistic_lock[i], o)
         IN  CASE o.res = "ok" -> PrewriteLoop(cmd, orc, i + 1, t2, locks)
               [] o.res = "locked" ->
                    PrewriteLoop(cmd, orc, i + 1, t2, Append(locks, LockedResult(key)))
               [] OTHER -> LoopErr(t2, TxnError(MvccOther(key)))

RECURSIVE AcquireLoopCollect(_, _, _, _)
\* A key loop that collects every KeyIsLocked and goes on to the next key,
\* as the loops of Prewrite do: the variant C17 is tested against.
AcquireLoopCollect(cmd, orc, i, txn) ==
    IF i > Len(cmd.keys)
    THEN LET locked == SelectSeq([j \in 1 .. Len(cmd.keys) |-> j],
                                 LAMBDA j : orc[j].res = "locked")
         IN  Loop(txn, [j \in 1 .. Len(locked) |-> LockedResult(cmd.keys[locked[j]])], None)
    ELSE LET key == cmd.keys[i]
             o == orc[i]
             t2 == TxnCall(txn, "acquire_pessimistic_lock", key, 0, o)
         IN  CASE o.res \in {"ok", "locked"} -> AcquireLoopCollect(cmd, orc, i + 1, t2)
               [] OTHER -> LoopErr(t2, TxnError(MvccOther(key)))

RECURSIVE AcquireLoop(_, _, _, _)
\* The key loop of Command::AcquirePessimisticLock: the first KeyIsLocked
\* is collected and ends the loop.
AcquireLoop(cmd, orc, i, txn) ==
    IF i > Len(cmd.keys) THEN Loop(txn, <<>>, None)
    ELSE LET key == cmd.keys[i]
             o == orc[i]
             t2 == TxnCall(txn, "acquire_pessimistic_lock", key, 0, o)
         IN  CASE o.res = "ok" -> AcquireLoop(cmd, orc, i + 1, t2)
               [] o.res = "locked" -> Loop(t2, <<LockedResult(key)>>, None)
               [] OTHER -> LoopErr(t2, TxnError(MvccOther(key)))

\* lock_manager::extract_lock_from_result of a collected KeyIsLocked
ExtractLock(result) == [hash |-> Hash(result.err.of.of.key)]

RECURSIVE ReleaseLoopSkipErr(_, _, _, _, _, _, _)
\* A release loop that steps over a key whose primitive failed and goes on
\* with the next: the variant C22 is tested against.
ReleaseLoopSkipErr(keys, op, arg, orc, i, txn, rl) ==
    IF i > Len(keys) THEN Loop(txn, <<>>, rl)
    ELSE LET key == keys[i]
             o == orc[i]
             t2 == TxnCall(txn, op, key, arg, o)
         IN  IF o.res = "ok"
             THEN ReleaseLoopSkipErr(keys, op, arg, orc, i + 1, t2,
                                     ReleasedLocksPush(rl, ReleasedOf(key, o)))
             ELSE ReleaseLoopSkipErr(keys, op, arg, orc, i + 1, t2, rl)

RECURSIVE ReleaseLoop(_, _, _, _, _, _, _)
\* for k in keys { released_locks.push(txn.op(k, arg)?) }: the loops of
\* Commit, Rollback, PessimisticRollback and ResolveLockLite, and the one
\* call of Cleanup. Any error of the primitive returns.
ReleaseLoop(keys, op, arg, orc, i, txn, rl) ==
    IF i > Len(keys) THEN Loop(txn, <<>>, rl)
    ELSE LET key == keys[i]
             o == orc[i]
             t2 == TxnCall(txn, op, key, arg, o)
         IN  IF o.res = "ok"
             THEN ReleaseLoop(keys, op, arg, orc, i + 1, t2,
                              ReleasedLocksPush(rl, ReleasedOf(key, o)))
             ELSE LoopErr(t2, TxnError(IF o.res = "locked" THEN KeyIsLocked(key)
                                       ELSE MvccOther(key)))

\* The state of the ResolveLock write loop: released maps a start_ts to its
\* ReleasedLocks (the HashMap of process.rs:710).
ResolveState(ret, txn, released, scan_key, err) ==
    [ret |-> ret, txn |-> txn, released |-> released, scan_key |-> scan_key, err |-> err]

\* released_locks.entry(ts).or_insert_with(|| ReleasedLocks::new(ts, commit_ts)).push(released)
ReleasedEntryPush(released, ts, commit_ts, lock) ==
    LET cur == IF ts \in DOMAIN released THEN released[ts]
               ELSE ReleasedLocksNew(ts, commit_ts)
    IN  [t \in DOMAIN released \cup {ts} |->
            IF t = ts THEN ReleasedLocksPush(cur, lock) ELSE released[t]]

\* A cutoff that needs the write size to exceed MAX_TXN_WRITE_SIZE: the
\* variant C10 is tested against.
WriteSizeExceeded(txn) == TxnWriteSize(txn) > MAX_TXN_WRITE_SIZE

\* The cutoff of the ResolveLock write loop, tested after a key.
WriteSizeReached(txn) == TxnWriteSize(txn) >= MAX_TXN_WRITE_SIZE

RECURSIVE ResolveLoopLax(_, _, _, _, _, _)
\* A key_locks loop that commits also when commit_ts equals the lock's ts:
\* the variant C20 is tested against.
ResolveLoopLax(cmd, orc, i, txn, released, scan_key) ==
    IF i > Len(cmd.key_locks) THEN ResolveState("Ok", txn, released, scan_key, None)
    ELSE LET current_key == cmd.key_locks[i].key
             current_lock == cmd.key_locks[i].lock
             t1 == TxnSetStartTs(txn, current_lock.ts)
             o == orc[i]
         IN  IF current_lock.ts \notin DOMAIN cmd.txn_status
             THEN ResolveState("Panic", t1, released, scan_key, None)
             ELSE
             LET commit_ts == cmd.txn_status[current_lock.ts]
                 t2 == IF commit_ts = 0 THEN TxnCall(t1, "rollback", current_key, 0, o)
                       ELSE TxnCall(t1, "commit", current_key, commit_ts, o)
                 r2 == ReleasedEntryPush(released, current_lock.ts, commit_ts,
                                         ReleasedOf(current_key, o))
             IN  CASE commit_ts # 0 /\ ~(commit_ts >= current_lock.ts) ->
                        ResolveState("Err", t1, released, scan_key,
                                     Some(InvalidTxnTso(current_lock.ts, commit_ts)))
                   [] o.res # "ok" ->
                        ResolveState("Err", t2, released, scan_key,
                                     Some(TxnError(IF o.res = "locked"
                                                   THEN KeyIsLocked(current_key)
                                                   ELSE MvccOther(current_key))))
                   [] WriteSizeReached(t2) ->
                        ResolveState("Ok", t2, r2, Some(current_key), None)
                   [] OTHER -> ResolveLoopLax(cmd, orc, i + 1, t2, r2, scan_key)

RECURSIVE ResolveLoopDropRest(_, _, _, _, _, _)
\* A key_locks loop that breaks on the write size and hands no scan_key on:
\* the variant C25 is tested against.
ResolveLoopDropRest(cmd, orc, i, txn, released, scan_key) ==
    IF i > Len(cmd.key_locks) THEN ResolveState("Ok", txn, released, scan_key, None)
    ELSE LET current_key == cmd.key_locks[i].key
             current_lock == cmd.key_locks[i].lock
             t1 == TxnSetStartTs(txn, current_lock.ts)
             o == orc[i]
         IN  IF current_lock.ts \notin DOMAIN cmd.txn_status
             THEN ResolveState("Panic", t1, released, scan_key, None)
             ELSE
             LET commit_ts == cmd.txn_status[current_lock.ts]
                 t2 == IF commit_ts = 0 THEN TxnCall(t1, "rollback", current_key, 0, o)
                       ELSE TxnCall(t1, "commit", current_key, commit_ts, o)
                 r2 == ReleasedEntryPush(released, current_lock.ts, commit_ts,
                                         ReleasedOf(current_key, o))
             IN  CASE commit_ts # 0 /\ ~(commit_ts > current_lock.ts) ->
                        ResolveState("Err", t1, released, scan_key,
                                     Some(InvalidTxnTso(current_lock.ts, commit_ts)))
                   [] o.res # "ok" ->
                        ResolveState("Err", t2, released, scan_key,
                                     Some(TxnError(IF o.res = "locked"
                                                   THEN KeyIsLocked(current_key)
                                                   ELSE MvccOther(current_key))))
                   [] WriteSizeReached(t2) ->
                        ResolveState("Ok", t2, r2, None, None)
                   [] OTHER -> ResolveLoopDropRest(cmd, orc, i + 1, t2, r2, scan_key)

RECURSIVE ResolveLoop(_, _, _, _, _, _)
\* for (current_key, current_lock) in key_locks { ... } of Command::ResolveLock
ResolveLoop(cmd, orc, i, txn, released, scan_key) ==
    IF i > Len(cmd.key_locks) THEN ResolveState("Ok", txn, released, scan_key, None)
    ELSE LET current_key == cmd.key_locks[i].key
             current_lock == cmd.key_locks[i].lock
             t1 == TxnSetStartTs(txn, current_lock.ts)
             o == orc[i]
         IN  IF current_lock.ts \notin DOMAIN cmd.txn_status
             THEN ResolveState("Panic", t1, released, scan_key, None)
             ELSE
             LET commit_ts == cmd.txn_status[current_lock.ts]
                 t2 == IF commit_ts = 0 THEN TxnCall(t1, "rollback", current_key, 0, o)
                       ELSE TxnCall(t1, "commit", current_key, commit_ts, o)
                 r2 == ReleasedEntryPush(released, current_lock.ts, commit_ts,
                                         ReleasedOf(current_key, o))
             IN  CASE commit_ts # 0 /\ ~(commit_ts > current_lock.ts) ->
                        ResolveState("Err", t1, released, scan_key,
                                     Some(InvalidTxnTso(current_lock.ts, commit_ts)))
                   [] o.res # "ok" ->
                        ResolveState("Err", t2, released, scan_key,
                                     Some(TxnError(IF o.res = "locked"
                                                   THEN KeyIsLocked(current_key)
                                                   ELSE MvccOther(current_key))))
                   [] WriteSizeReached(t2) ->
                        ResolveState("Ok", t2, r2, Some(current_key), None)
                   [] OTHER -> ResolveLoop(cmd, orc, i + 1, t2, r2, scan_key)

\* A wake-up of the first ReleasedLocks of the map only: the variant C7 is
\* tested against.
WakeUpFirst(released, order, lock_mgr) ==
    IF order = <<>> THEN <<>>
    ELSE ReleasedLocksWakeUp(released[Head(order)], lock_mgr)

RECURSIVE WakeUpAll(_, _, _)
\* released_locks.into_iter().for_each(|(_, r)| r.wake_up(lock_mgr)), the
\* HashMap being iterated in the order `order`.
WakeUpAll(released, order, lock_mgr) ==
    IF order = <<>> THEN <<>>
    ELSE ReleasedLocksWakeUp(released[Head(order)], lock_mgr)
         \o WakeUpAll(released, Tail(order), lock_mgr)

\* The lock_ttl txn_heart_beat answers: the advised one when it rewrote the
\* lock, the lock's own longer one when it left the lock alone.
HeartBeatTtl(cmd, o) == IF o.size > 0 THEN cmd.advise_ttl ELSE cmd.advise_ttl + 1

\* The error of a failed MvccTxn::new(..)?
TxnNewError == TxnError(MvccOther(0))

\* A Commit that lets commit_ts = lock_ts through: the variant C5 is tested
\* against.
WriteCommitLax(cmd, lock_mgr, new_ok, orc) ==
    IF cmd.commit_ts < cmd.lock_ts
    THEN WriteErr(InvalidTxnTso(cmd.lock_ts, cmd.commit_ts), <<>>)
    ELSE IF ~new_ok THEN WriteErr(TxnNewError, <<>>)
    ELSE LET l == ReleaseLoop(cmd.keys, "commit", cmd.commit_ts, orc, 1,
                              MvccTxnNew(cmd.lock_ts),
                              ReleasedLocksNew(cmd.lock_ts, cmd.commit_ts))
         IN  IF l.ret = "Err" THEN WriteErr(l.err.v, l.txn.calls)
             ELSE WriteOk(cmd.ctx, Res, TxnIntoModifies(l.txn), Len(cmd.keys), None,
                          ReleasedLocksWakeUp(l.released, lock_mgr), l.txn)

\* Commit: the commit_ts check, then the commit loop and one wake_up.
WriteCommit(cmd, lock_mgr, new_ok, orc) ==
    IF cmd.commit_ts <= cmd.lock_ts
    THEN WriteErr(InvalidTxnTso(cmd.lock_ts, cmd.commit_ts), <<>>)
    ELSE IF ~new_ok THEN WriteErr(TxnNewError, <<>>)
    ELSE LET l == ReleaseLoop(cmd.keys, "commit", cmd.commit_ts, orc, 1,
                              MvccTxnNew(cmd.lock_ts),
                              ReleasedLocksNew(cmd.lock_ts, cmd.commit_ts))
         IN  IF l.ret = "Err" THEN WriteErr(l.err.v, l.txn.calls)
             ELSE WriteOk(cmd.ctx, Res, TxnIntoModifies(l.txn), Len(cmd.keys), None,
                          ReleasedLocksWakeUp(l.released, lock_mgr), l.txn)

\* Cleanup, Rollback, PessimisticRollback, ResolveLockLite: one
\* ReleasedLocks, the key loop, one wake_up.
WriteRelease(cmd, keys, op, arg, start_ts, commit_ts, pr, lock_mgr, new_ok, orc) ==
    IF ~new_ok THEN WriteErr(TxnNewError, <<>>)
    ELSE LET l == ReleaseLoop(keys, op, arg, orc, 1, MvccTxnNew(start_ts),
                              ReleasedLocksNew(start_ts, commit_ts))
         IN  IF l.ret = "Err" THEN WriteErr(l.err.v, l.txn.calls)
             ELSE WriteOk(cmd.ctx, pr, TxnIntoModifies(l.txn),
                          IF cmd.type = "Cleanup" THEN 1 ELSE Len(keys), None,
                          ReleasedLocksWakeUp(l.released, lock_mgr), l.txn)

\* A Prewrite that hands the modifications of the mutations that succeeded
\* to the engine although a key is locked: the variant C4 is tested against.
WritePrewriteKeepWrites(cmd, new_ok, orc) ==
    IF ~new_ok THEN WriteErr(TxnNewError, <<>>)
    ELSE LET l == PrewriteLoop(cmd, orc, 1, MvccTxnNew(cmd.start_ts), <<>>)
         IN  CASE l.ret = "Err" -> WriteErr(l.err.v, l.txn.calls)
               [] l.locks = <<>> ->
                    WriteOk(cmd.ctx, MultiRes(<<>>), TxnIntoModifies(l.txn),
                            Len(cmd.mutations), None, <<>>, l.txn)
               [] OTHER -> WriteOk(cmd.ctx, MultiRes(l.locks), TxnIntoModifies(l.txn), 0,
                                   None, <<>>, l.txn)

\* Prewrite: the mutation loop, then all modifications or none.
WritePrewrite(cmd, new_ok, orc) ==
    IF ~new_ok THEN WriteErr(TxnNewError, <<>>)
    ELSE LET l == PrewriteLoop(cmd, orc, 1, MvccTxnNew(cmd.start_ts), <<>>)
         IN  CASE l.ret = "Err" -> WriteErr(l.err.v, l.txn.calls)
               [] l.locks = <<>> ->
                    WriteOk(cmd.ctx, MultiRes(<<>>), TxnIntoModifies(l.txn),
                            Len(cmd.mutations), None, <<>>, l.txn)
               [] OTHER -> WriteOk(cmd.ctx, MultiRes(l.locks), <<>>, 0, None, <<>>, l.txn)

\* An AcquirePessimisticLock that returns the modifications of the keys it
\* locked together with the lock_info: the variant C13 is tested against.
WriteAcquireKeepWrites(cmd, new_ok, orc) ==
    IF ~new_ok THEN WriteErr(TxnNewError, <<>>)
    ELSE LET l == AcquireLoop(cmd, orc, 1, MvccTxnNew(cmd.start_ts))
         IN  CASE l.ret = "Err" -> WriteErr(l.err.v, l.txn.calls)
               [] l.locks = <<>> ->
                    WriteOk(cmd.ctx, MultiRes(<<>>), TxnIntoModifies(l.txn),
                            Len(cmd.keys), None, <<>>, l.txn)
               [] OTHER ->
                    WriteOk(cmd.ctx, MultiRes(l.locks), TxnIntoModifies(l.txn), Len(cmd.keys),
                            Some([lock |-> ExtractLock(l.locks[1]),
                                  is_first_lock |-> cmd.is_first_lock,
                                  wait_timeout |-> cmd.wait_timeout]),
                            <<>>, l.txn)

\* AcquirePessimisticLock: the key loop, then the modifications or a lock_info.
WriteAcquire(cmd, new_ok, orc) ==
    IF ~new_ok THEN WriteErr(TxnNewError, <<>>)
    ELSE LET l == AcquireLoop(cmd, orc, 1, MvccTxnNew(cmd.start_ts))
         IN  CASE l.ret = "Err" -> WriteErr(l.err.v, l.txn.calls)
               [] l.locks = <<>> ->
                    WriteOk(cmd.ctx, MultiRes(<<>>), TxnIntoModifies(l.txn),
                            Len(cmd.keys), None, <<>>, l.txn)
               [] OTHER ->
                    WriteOk(cmd.ctx, MultiRes(l.locks), <<>>, 0,
                            Some([lock |-> ExtractLock(l.locks[1]),
                                  is_first_lock |-> cmd.is_first_lock,
                                  wait_timeout |-> cmd.wait_timeout]),
                            <<>>, l.txn)

\* ResolveLock (write half): the key_locks loop, the wake-ups, Res or the
\* continuation.
WriteResolveLock(cmd, lock_mgr, new_ok, orc, order) ==
    IF ~new_ok THEN WriteErr(TxnNewError, <<>>)
    ELSE CHOOSE w \in
            {LET pr == IF ~l.scan_key.some THEN Res
                       ELSE NextCommand([type |-> "ResolveLock", ctx |-> cmd.ctx,
                                         txn_status |-> cmd.txn_status,
                                         scan_key |-> l.scan_key, key_locks |-> <<>>])
             IN  CASE l.ret = "Panic" -> WritePanic
                   [] l.ret = "Err" -> WriteErr(l.err.v, l.txn.calls)
                   [] OTHER ->
                        WriteOk(cmd.ctx, pr, TxnIntoModifies(l.txn), Len(cmd.key_locks),
                                None,
                                WakeUpAll(l.released,
                                          SelectSeq(order, LAMBDA t : t \in DOMAIN l.released),
                                          lock_mgr),
                                l.txn)
             : l \in {ResolveLoop(cmd, orc, 1, MvccTxnNew(0), << >>, cmd.scan_key)}} : TRUE

\* TxnHeartBeat: one txn_heart_beat, no wake-up.
WriteHeartBeat(cmd, new_ok, orc) ==
    IF ~new_ok THEN WriteErr(TxnNewError, <<>>)
    ELSE LET o == orc[1]
             txn == TxnCall(MvccTxnNew(cmd.start_ts), "txn_heart_beat", cmd.primary_key,
                            cmd.advise_ttl, o)
         IN  IF o.res # "ok"
             THEN WriteErr(TxnError(IF o.res = "locked" THEN KeyIsLocked(cmd.primary_key)
                                    ELSE MvccOther(cmd.primary_key)), txn.calls)
             ELSE WriteOk(cmd.ctx, TxnStatus(HeartBeatTtl(cmd, o), 0), TxnIntoModifies(txn),
                          1, None, <<>>, txn)

\* process_write_impl(cmd, snapshot, lock_mgr, statistics): lock_mgr tells
\* whether a lock manager is there, new_ok whether MvccTxn::new succeeds,
\* orc[i] is what the MVCC primitive answers for the i-th key, order the
\* iteration order of the ResolveLock HashMap.
process_write_impl(cmd, lock_mgr, new_ok, orc, order) ==
    CASE cmd.type = "Prewrite" -> WritePrewrite(cmd, new_ok, orc)
      [] cmd.type = "AcquirePessimisticLock" -> WriteAcquire(cmd, new_ok, orc)
      [] cmd.type = "Commit" -> WriteCommit(cmd, lock_mgr, new_ok, orc)
      [] cmd.type = "Cleanup" ->
            WriteRelease(cmd, <<cmd.key>>, "cleanup", cmd.current_ts, cmd.start_ts, 0, Res,
                         lock_mgr, new_ok, orc)
      [] cmd.type = "Rollback" ->
            WriteRelease(cmd, cmd.keys, "rollback", 0, cmd.start_ts, 0, Res,
                         lock_mgr, new_ok, orc)
      [] cmd.type = "PessimisticRollback" ->
            IF ~lock_mgr THEN WritePanic
            ELSE WriteRelease(cmd, cmd.keys, "pessimistic_rollback", cmd.for_update_ts,
                              cmd.start_ts, 0, MultiRes(<<>>), lock_mgr, new_ok, orc)
      [] cmd.type = "ResolveLock" -> WriteResolveLock(cmd, lock_mgr, new_ok, orc, order)
      [] cmd.type = "ResolveLockLite" ->
            WriteRelease(cmd, cmd.resolve_keys,
                         IF cmd.commit_ts > 0 THEN "commit" ELSE "rollback",
                         IF cmd.commit_ts > 0 THEN cmd.commit_ts ELSE 0,
                         cmd.start_ts, cmd.commit_ts, Res, lock_mgr, new_ok, orc)
      [] cmd.type = "TxnHeartBeat" -> WriteHeartBeat(cmd, new_ok, orc)
      [] cmd.type = "Pause" ->
            [WriteOk(cmd.ctx, Res, <<>>, 0, None, <<>>, MvccTxnNew(0))
                EXCEPT !.stats_added = FALSE]
      [] OTHER -> WritePanic

\* ------------------------------------------------ MvccReader on a snapshot

\* u64::MAX (process.rs:359, :381), as the largest integer of the checker.
U64_MAX == 2147483647

\* A store holds, per key, the lock on it (None, or Some of its start ts
\* and whether it is pessimistic) and the commit timestamps of its writes;
\* the write committed at c was started at StartOf(c).
StartOf(commit_ts) == commit_ts - 5

\* reader.scan_locks(start, filter, limit) (mvcc/reader): the locks at keys
\* >= start that pass the filter (given as the set of the lock
\* timestamps it accepts), in key order; the scan returns with
\* has_remain = true as soon as it holds `limit` of them.
MatchingKeys(store, start, filter) ==
    {k \in Keys : /\ (start.some => k >= start.v)
                  /\ store.locks[k].some
                  /\ store.locks[k].v.ts \in filter}

RECURSIVE KeysInOrder(_)
KeysInOrder(S) ==
    IF S = {} THEN <<>>
    ELSE LET m == CHOOSE k \in S : \A x \in S : k <= x
         IN  <<m>> \o KeysInOrder(S \ {m})

ScanLocks(store, start, filter, limit) ==
    LET all == KeysInOrder(MatchingKeys(store, start, filter))
        pairs == [i \in 1 .. Len(all) |-> [key |-> all[i], lock |-> store.locks[all[i]].v]]
    IN  IF limit > 0 /\ Len(all) >= limit
        THEN [kv_pairs |-> SubSeq(pairs, 1, limit), has_remain |-> TRUE]
        ELSE [kv_pairs |-> pairs, has_remain |-> FALSE]

\* reader.seek_write(key, ts): the newest write of the key committed at or
\* before ts.
SeekWrite(store, key, ts) ==
    LET older == {c \in store.writes[key] : c <= ts}
    IN  IF older = {} THEN None
        ELSE Some(CHOOSE c \in older : \A x \in older : x <= c)

RECURSIVE FindWrites(_, _, _, _)
\* The loop of find_mvcc_infos_by_key run to its end, over chains whose
\* commit timestamps are all above 0 (those of WriteStores): after a hit at
\* commit_ts the next seek is at commit_ts - 1. SeekStep follows the loop
\* seek by seek over chains that hold commit_ts = 0.
FindWrites(store, key, ts, writes) ==
    LET opt == SeekWrite(store, key, ts)
    IN  IF opt.some
        THEN FindWrites(store, key, opt.v - 1,
                        Append(writes, [commit_ts |-> opt.v, start_ts |-> StartOf(opt.v)]))
        ELSE writes

\* find_mvcc_infos_by_key(reader, key, ts): (lock, writes, values)
find_mvcc_infos_by_key(store, key, ts) ==
    LET writes == FindWrites(store, key, ts, <<>>)
    IN  [lock |-> store.locks[key], writes |-> writes,
         values |-> [i \in 1 .. Len(writes) |-> writes[i].start_ts]]

\* reader.seek_ts(start_ts): the first key with a write started at start_ts.
SeekTs(store, start_ts) ==
    LET hit == {k \in Keys : \E c \in store.writes[k] : StartOf(c) = start_ts}
    IN  IF hit = {} THEN None ELSE Some(CHOOSE k \in hit : \A x \in hit : k <= x)

\* ---------------------------------------------------- process_read_impl

ReadOk(pr, stats_added) == [ret |-> "Ok", pr |-> pr, err |-> None, stats_added |-> stats_added]
ReadErr(stats_added) ==
    [ret |-> "Err", pr |-> Res, err |-> Some(TxnError(MvccOther(0))),
     stats_added |-> stats_added]

\* A read half that forgets has_remain and never sets the next scan_key:
\* the variant C8 is tested against.
ResolveLockNextNoScanKey(cmd, scan) ==
    IF scan.kv_pairs = <<>> THEN Res
    ELSE NextCommand([type |-> "ResolveLock", ctx |-> cmd.ctx,
                      txn_status |-> cmd.txn_status, scan_key |-> None,
                      key_locks |-> [i \in 1 .. Len(scan.kv_pairs) |->
                                        [key |-> scan.kv_pairs[i].key,
                                         lock |-> scan.kv_pairs[i].lock]]])

\* A read half that hands one (key, lock) pair to the write half per
\* round: the variant C9 is tested against.
ResolveLockNextOnePair(cmd, scan) ==
    IF scan.kv_pairs = <<>> THEN Res
    ELSE NextCommand([type |-> "ResolveLock", ctx |-> cmd.ctx,
                      txn_status |-> cmd.txn_status,
                      scan_key |-> Some(scan.kv_pairs[1].key),
                      key_locks |-> <<[key |-> scan.kv_pairs[1].key,
                                       lock |-> scan.kv_pairs[1].lock]>>])

\* A read half that always hands on the last scanned key, whatever has_remain
\* says: the variant C21 is tested against.
ResolveLockNextAlwaysKey(cmd, scan) ==
    LET kv_pairs == scan.kv_pairs
    IN  IF kv_pairs = <<>> THEN Res
        ELSE NextCommand([type |-> "ResolveLock", ctx |-> cmd.ctx,
                          txn_status |-> cmd.txn_status,
                          scan_key |-> Some(kv_pairs[Len(kv_pairs)].key),
                          key_locks |-> [i \in 1 .. Len(kv_pairs) |->
                                            [key |-> kv_pairs[i].key,
                                             lock |-> kv_pairs[i].lock]]])

\* The continuation the ResolveLock read half builds from a scan.
ResolveLockNext(cmd, scan) ==
    LET kv_pairs == scan.kv_pairs
        next_scan_key == IF scan.has_remain THEN Some(kv_pairs[Len(kv_pairs)].key) ELSE None
    IN  IF kv_pairs = <<>> THEN Res
        ELSE NextCommand([type |-> "ResolveLock", ctx |-> cmd.ctx,
                          txn_status |-> cmd.txn_status, scan_key |-> next_scan_key,
                          key_locks |-> [i \in 1 .. Len(kv_pairs) |->
                                            [key |-> kv_pairs[i].key,
                                             lock |-> kv_pairs[i].lock]]])

\* process_read_impl(cmd, snapshot, statistics): rd tells which call of the
\* reader fails (ok: none; first: the first one made; second: the one
\* after it).
process_read_impl(cmd, store, rd) ==
    CASE cmd.type = "MvccByKey" ->
            IF rd # "ok" THEN ReadErr(TRUE)
            ELSE ReadOk(MvccKey(find_mvcc_infos_by_key(store, cmd.key, U64_MAX)),
                        TRUE)
      [] cmd.type = "MvccByStartTs" ->
            IF rd = "first" THEN ReadErr(FALSE)
            ELSE LET opt == SeekTs(store, cmd.start_ts)
                 IN  IF ~opt.some THEN ReadOk(MvccStartTs(None), FALSE)
                     ELSE IF rd = "second" THEN ReadErr(TRUE)
                     ELSE ReadOk(MvccStartTs(Some(
                                    [key |-> opt.v,
                                     mvcc |-> find_mvcc_infos_by_key(store, opt.v, U64_MAX)])), TRUE)
      [] cmd.type = "ScanLock" ->
            IF rd = "first" THEN ReadErr(TRUE)
            ELSE IF rd = "second" THEN ReadErr(TRUE)
            ELSE LET scan == ScanLocks(store, cmd.start_key,
                                       0 .. cmd.max_ts, cmd.limit)
                 IN  ReadOk(Locks([i \in 1 .. Len(scan.kv_pairs) |->
                                      [primary_lock |-> scan.kv_pairs[i].lock.primary,
                                       lock_version |-> scan.kv_pairs[i].lock.ts,
                                       key |-> scan.kv_pairs[i].key]]), TRUE)
      [] cmd.type = "ResolveLock" ->
            IF rd # "ok" THEN ReadErr(TRUE)
            ELSE ReadOk(CHOOSE pr \in
                            {ResolveLockNext(cmd, result) : result \in
                                {ScanLocks(store, cmd.scan_key,
                                           DOMAIN cmd.txn_status,
                                           RESOLVE_LOCK_BATCH_SIZE)}} : TRUE, TRUE)
      [] OTHER -> [ret |-> "Panic", pr |-> Res, err |-> None, stats_added |-> FALSE]

\* ------------------------------------------------------ inputs of a run

\* The start timestamps of the transactions, and the commit timestamps a
\* command may name for one: 0 (rolled back), its start_ts (not after it),
\* and a later one.
Txns == {10, 20}
CommitTss(t) == {0, t, t + 5}

\* txn_status of a ResolveLock: start_ts -> commit_ts
StatusMaps ==
    UNION {{m \in [D -> UNION {CommitTss(t) : t \in D}] : \A t \in D : m[t] \in CommitTss(t)}
           : D \in (SUBSET Txns) \ {{}}}

LockOf(ts, pessimistic) == [ts |-> ts, pessimistic |-> pessimistic, primary |-> 1]
\* The lock a key of a store may hold: the locks of transaction 10 are
\* optimistic, those of transaction 20 pessimistic.
StoreLocks == {None} \cup {Some(LockOf(t, t = 20)) : t \in Txns}

EmptyStore ==
    [locks |-> [k \in Keys |-> None], writes |-> [k \in Keys |-> {}],
     size |-> [k \in Keys |-> 1]]
\* Stores that differ in their locks, and stores that differ in their writes.
LockStores == {[EmptyStore EXCEPT !.locks = l] : l \in [Keys -> StoreLocks]}
WriteStores == {[EmptyStore EXCEPT !.writes = w] : w \in [Keys -> SUBSET {15, 25}]}
\* The stores a ResolveLock runs over: locks, and the bytes resolving each
\* locked key writes.
ResolveStores ==
    {[EmptyStore EXCEPT !.locks = lz[1], !.size = lz[2]] :
        lz \in {x \in [Keys -> StoreLocks] \X [Keys -> KeySizes] :
                  \A k \in Keys : ~x[1][k].some => x[2][k] = 1}}

AscendingKeySeqs == {s \in KeySeqs : Ascending(s)}

PrewriteCmds ==
    {[type |-> "Prewrite", ctx |-> Ctx, mutations |-> ks, start_ts |-> 10,
      for_update_ts |-> f,
      is_pessimistic_lock |-> IF f = 0 THEN <<>> ELSE [i \in 1 .. Len(ks) |-> TRUE]]
        : ks \in KeySeqs, f \in {0, 11}}
AcquireCmds ==
    {[type |-> "AcquirePessimisticLock", ctx |-> Ctx, keys |-> ks, start_ts |-> 10,
      is_first_lock |-> b, wait_timeout |-> 1000] : ks \in KeySeqs, b \in BOOLEAN}
CommitCmds ==
    {[type |-> "Commit", ctx |-> Ctx, keys |-> ks, lock_ts |-> 10, commit_ts |-> c]
        : ks \in KeySeqs, c \in {5, 10, 15}}
CleanupCmds ==
    {[type |-> "Cleanup", ctx |-> Ctx, key |-> k, start_ts |-> 10, current_ts |-> 12]
        : k \in Keys}
RollbackCmds ==
    {[type |-> "Rollback", ctx |-> Ctx, keys |-> ks, start_ts |-> 10] : ks \in KeySeqs}
PessimisticRollbackCmds ==
    {[type |-> "PessimisticRollback", ctx |-> Ctx, keys |-> ks, start_ts |-> 10,
      for_update_ts |-> 11] : ks \in KeySeqs}
ResolveLockLiteCmds ==
    {[type |-> "ResolveLockLite", ctx |-> Ctx, start_ts |-> 10, commit_ts |-> c,
      resolve_keys |-> ks] : ks \in KeySeqs, c \in {0, 5, 15}}
TxnHeartBeatCmds ==
    {[type |-> "TxnHeartBeat", ctx |-> Ctx, primary_key |-> k, start_ts |-> 10,
      advise_ttl |-> 3000] : k \in Keys}
PauseCmds == {[type |-> "Pause", ctx |-> Ctx, duration |-> 1]}

\* The write half of a ResolveLock as the read half hands it over: the
\* key_locks are a scan's (in key order, not empty, each lock's ts in
\* txn_status) and scan_key is absent or the last scanned key.
ResolveLockWriteCmds ==
    {[type |-> "ResolveLock", ctx |-> Ctx, txn_status |-> m, scan_key |-> sk,
      key_locks |-> [i \in 1 .. Len(ks) |-> [key |-> ks[i], lock |-> LockOf(ts[i], FALSE)]]]
        : <<m, ks, ts, sk>> \in
            {<<m, ks, ts, sk>> \in StatusMaps \X (AscendingKeySeqs \ {<<>>})
                                      \X SeqsUpTo(Txns, MaxLen)
                                      \X ({None} \cup {Some(k) : k \in 1 .. MaxLen}) :
                /\ Len(ts) = Len(ks)
                /\ \A i \in 1 .. Len(ts) : ts[i] \in DOMAIN m
                /\ sk.some => sk.v = ks[Len(ks)]}}

ResolveLockReadCmds ==
    {[type |-> "ResolveLock", ctx |-> Ctx, txn_status |-> m, scan_key |-> sk,
      key_locks |-> <<>>] : m \in StatusMaps, sk \in {None, Some(1)}}
MvccByKeyCmds == {[type |-> "MvccByKey", ctx |-> Ctx, key |-> k] : k \in Keys}
MvccByStartTsCmds ==
    {[type |-> "MvccByStartTs", ctx |-> Ctx, start_ts |-> t] : t \in {10, 20, 30}}
ScanLockCmds ==
    {[type |-> "ScanLock", ctx |-> Ctx, max_ts |-> t, start_key |-> sk, limit |-> n]
        : t \in {10, 20}, sk \in {None} \cup {Some(k) : k \in Keys}, n \in 0 .. 2}

\* What the MVCC primitive of a command can answer for one key.
OutcomesOf(cmd) ==
    CASE cmd.type \in {"Prewrite", "AcquirePessimisticLock"} ->
            {Outcome("ok", "none", 1), Outcome("locked", "none", 0),
             Outcome("err", "none", 0)}
      [] cmd.type = "TxnHeartBeat" ->
            {Outcome("ok", "none", 0), Outcome("ok", "none", 1), Outcome("err", "none", 0)}
      [] cmd.type = "ResolveLock" ->
            {Outcome("ok", "none", 0), Outcome("err", "none", 0)}
            \cup {Outcome("ok", "opt", s) : s \in KeySizes}
            \cup {Outcome("ok", "pess", 1)}
      [] OTHER ->
            {Outcome("ok", "none", 0), Outcome("ok", "none", 1), Outcome("ok", "opt", 1),
             Outcome("ok", "pess", 1), Outcome("err", "none", 0)}

\* The number of keys a write command walks.
NumKeys(cmd) ==
    CASE cmd.type = "Prewrite" -> Len(cmd.mutations)
      [] cmd.type \in {"AcquirePessimisticLock", "Commit", "Rollback",
                       "PessimisticRollback"} -> Len(cmd.keys)
      [] cmd.type = "ResolveLockLite" -> Len(cmd.resolve_keys)
      [] cmd.type = "ResolveLock" -> Len(cmd.key_locks)
      [] cmd.type \in {"Cleanup", "TxnHeartBeat"} -> 1
      [] OTHER -> 0

WriteCmds ==
    PrewriteCmds \cup AcquireCmds \cup CommitCmds \cup CleanupCmds \cup RollbackCmds
    \cup PessimisticRollbackCmds \cup ResolveLockLiteCmds \cup TxnHeartBeatCmds
    \cup PauseCmds \cup ResolveLockWriteCmds

\* The answers of the snapshot to a write command: MvccTxn::new fails, or
\* it succeeds and each key gets an outcome.
NoMvcc == [new_ok |-> TRUE, orc |-> <<>>]
MvccAnswers(cmd) ==
    IF cmd.type = "Pause" THEN {NoMvcc}
    ELSE {[new_ok |-> FALSE, orc |-> <<>>]}
         \cup {[new_ok |-> TRUE, orc |-> o] : o \in [1 .. NumKeys(cmd) -> OutcomesOf(cmd)]}

\* ------------------------------------------------------------ the state

VARIABLES
    task,    \* the Task handed to Executor::execute
    exec,    \* the Executor: which handles it still holds, and how often each was taken
    phase,   \* new: execute not called yet; executed; panicked: a task of the pool aborted
    pool,    \* the closures spawned on the worker pool and not run yet
    engine,  \* the writes the engine accepted and has not answered yet
    log,     \* every call made on the pool, the scheduler, the lock manager and the engine
    mvcc,    \* what MvccTxn answers on the snapshot of this execution
    reader,  \* which call of the MvccReader fails on the snapshot of this execution
    store,   \* the locks and writes of the store the snapshot is taken of
    ret,     \* what the processor of this execution returned
    hist,    \* the ResolveLock rounds run so far, and the scan_key of the first
    cb       \* the storage callback a result is delivered to, and the calls made on it

vars == <<task, exec, phase, pool, engine, log, mvcc, reader, store, ret, hist, cb>>

\* Executor::new(scheduler, pool, lock_mgr)
ExecutorNew(lock_mgr) ==
    [sched_pool |-> TRUE, scheduler |-> TRUE, lock_mgr |-> lock_mgr,
     pool_takes |-> 0, scheduler_takes |-> 0]

\* take_pool, take_scheduler: Option::take, then unwrap
TakePool(e) == [e EXCEPT !.sched_pool = FALSE, !.pool_takes = @ + 1]
TakeScheduler(e) == [e EXCEPT !.scheduler = FALSE, !.scheduler_takes = @ + 1]
\* take_lock_mgr: Option::take
TakeLockMgr(e) == [e EXCEPT !.lock_mgr = FALSE]

Call(thread, call, arg) == [thread |-> thread, call |-> call, arg |-> arg]
\* notify_scheduler(scheduler, msg) on a thread
Notify(thread, msg) == <<Call(thread, "on_msg", msg)>>
CallsOn(thread, calls) == [i \in 1 .. Len(calls) |-> Call(thread, calls[i].call, calls[i])]

ReadFinished(cid, pr, tag) == [type |-> "ReadFinished", cid |-> cid, pr |-> pr, tag |-> tag]
WriteFinished(cid, pr, result, tag) ==
    [type |-> "WriteFinished", cid |-> cid, pr |-> pr, result |-> result, tag |-> tag]
FinishedWithErr(cid, err, tag) ==
    [type |-> "FinishedWithErr", cid |-> cid, err |-> err, tag |-> tag]
WaitForLock(cid, start_ts, pr, lock_info) ==
    [type |-> "WaitForLock", cid |-> cid, start_ts |-> start_ts, pr |-> pr,
     lock |-> lock_info.lock, is_first_lock |-> lock_info.is_first_lock,
     wait_timeout |-> lock_info.wait_timeout]

\* Result<()> of the engine
OkUnit == [ok |-> TRUE]
EngineErr == [ok |-> FALSE, err |-> [err |-> "Engine"]]

NoRet == [kind |-> "none"]
\* No storage callback is at hand: the scheduler owns it, not the Executor.
NoCallback == [kind |-> "none"]
NoHist == [reads |-> 0, writes |-> 0, cutoffs |-> 0, locks |-> 0, from |-> None]

Orders == {o \in SeqsUpTo(Txns, Cardinality(Txns)) : Len(o) = Cardinality(Txns) /\ Distinct(o)}

\* -------------------------------------------------------------- actions

\* An execute that posts FinishedWithErr itself on a snapshot error instead
\* of spawning the post on the pool: the variant C14 is tested against.
execute_inline(snap_ok, term) ==
    /\ phase = "new"
    /\ IF snap_ok
       THEN /\ task' = [task EXCEPT !.cmd.ctx.term = IF term.some THEN term.v ELSE @]
            /\ pool' = pool \cup {[kind |-> "process", readonly |-> Readonly(task.cmd)]}
            /\ log' = Append(log, Call("caller", "spawn", "process"))
            /\ exec' = exec
       ELSE /\ pool' = pool
            /\ log' = log \o Notify("caller",
                         FinishedWithErr(task.cid, TxnError(EngineErr.err), task.tag))
            /\ exec' = TakeScheduler(exec)
            /\ task' = task
    /\ phase' = "executed"
    /\ UNCHANGED <<cb, engine, mvcc, reader, store, ret, hist>>

\* An execute whose process_by_worker takes the pool handle where the code
\* clones it: the variant C26 is tested against.
execute_take_pool(snap_ok, term) ==
    /\ phase = "new"
    /\ IF snap_ok
       THEN /\ task' = [task EXCEPT !.cmd.ctx.term = IF term.some THEN term.v ELSE @]
            /\ IF exec.sched_pool
               THEN /\ pool' = pool \cup {[kind |-> "process", readonly |-> Readonly(task.cmd)]}
                    /\ log' = Append(log, Call("caller", "spawn", "process"))
                    /\ phase' = "executed"
               ELSE /\ phase' = "panicked"
                    /\ UNCHANGED <<pool, log>>
            /\ exec' = TakePool(exec)
       ELSE /\ IF exec.sched_pool
               THEN /\ pool' = pool \cup {[kind |-> "snapshot_err"]}
                    /\ log' = Append(log, Call("caller", "spawn", "snapshot_err"))
                    /\ phase' = "executed"
               ELSE /\ phase' = "panicked"
                    /\ UNCHANGED <<pool, log>>
            /\ exec' = TakePool(exec)
            /\ task' = task
    /\ UNCHANGED <<cb, engine, mvcc, reader, store, ret, hist>>

\* Executor::execute(cb_ctx, snapshot, task) on the caller's thread, and
\* process_by_worker when the snapshot is there: nothing runs here, a
\* closure is spawned on the pool.
execute(snap_ok, term) ==
    /\ phase = "new"
    /\ IF snap_ok
       THEN /\ task' = [task EXCEPT !.cmd.ctx.term = IF term.some THEN term.v ELSE @]
            /\ IF exec.sched_pool
               THEN /\ pool' = pool \cup {[kind |-> "process", readonly |-> Readonly(task.cmd)]}
                    /\ log' = Append(log, Call("caller", "spawn", "process"))
                    /\ phase' = "executed"
               ELSE /\ phase' = "panicked"
                    /\ UNCHANGED <<pool, log>>
            /\ exec' = exec
       ELSE /\ IF exec.sched_pool
               THEN /\ pool' = pool \cup {[kind |-> "snapshot_err"]}
                    /\ log' = Append(log, Call("caller", "spawn", "snapshot_err"))
                    /\ phase' = "executed"
               ELSE /\ phase' = "panicked"
                    /\ UNCHANGED <<pool, log>>
            /\ exec' = TakePool(exec)
            /\ task' = task
    /\ UNCHANGED <<cb, engine, mvcc, reader, store, ret, hist>>

\* The closure execute spawns on a snapshot error, run by a worker:
\* take_scheduler and FinishedWithErr.
RunSnapshotErr ==
    /\ [kind |-> "snapshot_err"] \in pool
    /\ pool' = pool \ {[kind |-> "snapshot_err"]}
    /\ IF exec.scheduler
       THEN /\ log' = log \o Notify("worker",
                         FinishedWithErr(task.cid, TxnError(EngineErr.err), task.tag))
            /\ phase' = phase
       ELSE /\ phase' = "panicked"
            /\ log' = log
    /\ exec' = TakeScheduler(exec)
    /\ UNCHANGED <<cb, task, engine, mvcc, reader, store, ret, hist>>

\* A process_read that turns an error of the read processor into
\* FinishedWithErr: the variant C2 is tested against.
process_read_err ==
    /\ [kind |-> "process", readonly |-> TRUE] \in pool
    /\ pool' = pool \ {[kind |-> "process", readonly |-> TRUE]}
    /\ \E r \in {process_read_impl(task.cmd, store, reader)} :
       /\ ret' = [kind |-> "read", res |-> r, lock_mgr |-> exec.lock_mgr]
       /\ IF r.ret = "Panic" \/ ~exec.scheduler
          THEN /\ phase' = "panicked"
               /\ log' = log
          ELSE /\ phase' = phase
               /\ log' = log \o Notify("worker",
                                  IF r.ret = "Err"
                                  THEN FinishedWithErr(task.cid, r.err.v, task.tag)
                                  ELSE ReadFinished(task.cid, r.pr, task.tag))
       /\ exec' = IF r.ret = "Panic" THEN exec ELSE TakeScheduler(exec)
    /\ hist' = [hist EXCEPT !.reads = @ + 1]
    /\ UNCHANGED <<cb, task, engine, mvcc, reader, store>>

\* process_read, run by a worker inside the closure of process_by_worker.
process_read ==
    /\ [kind |-> "process", readonly |-> TRUE] \in pool
    /\ pool' = pool \ {[kind |-> "process", readonly |-> TRUE]}
    /\ \E r \in {process_read_impl(task.cmd, store, reader)} :
       LET pr == IF r.ret = "Err" THEN Failed(StorageError(r.err.v)) ELSE r.pr
       IN  /\ ret' = [kind |-> "read", res |-> r, lock_mgr |-> exec.lock_mgr]
           /\ IF r.ret = "Panic" \/ ~exec.scheduler
              THEN /\ phase' = "panicked"
                   /\ log' = log
              ELSE /\ phase' = phase
                   /\ log' = log \o Notify("worker", ReadFinished(task.cid, pr, task.tag))
           /\ exec' = IF r.ret = "Panic" THEN exec ELSE TakeScheduler(exec)
    /\ hist' = [hist EXCEPT !.reads = @ + 1]
    /\ UNCHANGED <<cb, task, engine, mvcc, reader, store>>

\* A process_write that goes on to post WriteFinished after WaitForLock:
\* the variant the message count of C1 is tested against.
WriteCallsThenFinish(r, cid, ts, tag, sync) ==
    CASE r.ret = "Err" -> Notify("worker", FinishedWithErr(cid, r.err.v, tag))
      [] r.lock_info.some ->
            Notify("worker", WaitForLock(cid, ts, r.pr, r.lock_info.v))
            \o Notify("worker", WriteFinished(cid, r.pr, OkUnit, tag))
      [] r.to_be_write = <<>> -> Notify("worker", WriteFinished(cid, r.pr, OkUnit, tag))
      [] sync = "reject" ->
            <<Call("worker", "async_write",
                   [ctx |-> r.ctx, modifies |-> r.to_be_write, accepted |-> FALSE])>>
            \o Notify("worker", FinishedWithErr(cid, TxnError(EngineErr.err), tag))
      [] OTHER ->
            <<Call("worker", "async_write",
                   [ctx |-> r.ctx, modifies |-> r.to_be_write, accepted |-> TRUE])>>

\* A process_write that hands every WriteResult without lock_info to the
\* engine, also an empty one: the variant C11 is tested against.
WriteCallsAlwaysEngine(r, cid, ts, tag, sync) ==
    CASE r.ret = "Err" -> Notify("worker", FinishedWithErr(cid, r.err.v, tag))
      [] r.lock_info.some -> Notify("worker", WaitForLock(cid, ts, r.pr, r.lock_info.v))
      [] sync = "reject" ->
            <<Call("worker", "async_write",
                   [ctx |-> r.ctx, modifies |-> r.to_be_write, accepted |-> FALSE])>>
            \o Notify("worker", FinishedWithErr(cid, TxnError(EngineErr.err), tag))
      [] OTHER ->
            <<Call("worker", "async_write",
                   [ctx |-> r.ctx, modifies |-> r.to_be_write, accepted |-> TRUE])>>
            \o (IF r.to_be_write = <<>>
                THEN Notify("worker", WriteFinished(cid, r.pr, OkUnit, tag)) ELSE <<>>)

\* A process_write that reports a write the engine rejected there and then
\* as WriteFinished with the error as its result: the variant C16 is tested
\* against.
WriteCallsRejectFinished(r, cid, ts, tag, sync) ==
    CASE r.ret = "Err" -> Notify("worker", FinishedWithErr(cid, r.err.v, tag))
      [] r.lock_info.some -> Notify("worker", WaitForLock(cid, ts, r.pr, r.lock_info.v))
      [] r.to_be_write = <<>> -> Notify("worker", WriteFinished(cid, r.pr, OkUnit, tag))
      [] sync = "reject" ->
            <<Call("worker", "async_write",
                   [ctx |-> r.ctx, modifies |-> r.to_be_write, accepted |-> FALSE])>>
            \o Notify("worker", WriteFinished(cid, r.pr, EngineErr, tag))
      [] OTHER ->
            <<Call("worker", "async_write",
                   [ctx |-> r.ctx, modifies |-> r.to_be_write, accepted |-> TRUE])>>

\* The message process_write ends with, and the calls it makes to get
\* there, for a WriteResult or an error of the write processor; sync is
\* what engine.async_write returns there and then.
WriteCalls(r, cid, ts, tag, sync) ==
    CASE r.ret = "Err" -> Notify("worker", FinishedWithErr(cid, r.err.v, tag))
      [] r.lock_info.some -> Notify("worker", WaitForLock(cid, ts, r.pr, r.lock_info.v))
      [] r.to_be_write = <<>> -> Notify("worker", WriteFinished(cid, r.pr, OkUnit, tag))
      [] sync = "reject" ->
            <<Call("worker", "async_write",
                   [ctx |-> r.ctx, modifies |-> r.to_be_write, accepted |-> FALSE])>>
            \o Notify("worker", FinishedWithErr(cid, TxnError(EngineErr.err), tag))
      [] OTHER ->
            <<Call("worker", "async_write",
                   [ctx |-> r.ctx, modifies |-> r.to_be_write, accepted |-> TRUE])>>

\* Whether process_write hands the WriteResult to the engine.
GoesToEngine(r) == r.ret = "Ok" /\ ~r.lock_info.some /\ r.to_be_write # <<>>

\* Whether the write half of a ResolveLock stopped on the write size.
CutOff(cmd, r) ==
    cmd.type = "ResolveLock" /\ r.ret = "Ok" /\ SumSizes(r.to_be_write) >= MAX_TXN_WRITE_SIZE

\* A process_write that wakes the waiters up after it has handed the write
\* to the engine or posted its message: the variant C24 is tested against.
process_write_wake_last(sync, order) ==
    /\ [kind |-> "process", readonly |-> FALSE] \in pool
    /\ pool' = pool \ {[kind |-> "process", readonly |-> FALSE]}
    /\ \E r \in {process_write_impl(task.cmd, exec.lock_mgr, mvcc.new_ok, mvcc.orc, order)} :
       LET e1 == TakeLockMgr(TakeScheduler(exec))
       IN  /\ ret' = [kind |-> "write", res |-> r, lock_mgr |-> exec.lock_mgr]
           /\ CASE ~exec.scheduler \/ r.ret = "Panic" ->
                    /\ phase' = "panicked"
                    /\ log' = log
                    /\ engine' = engine
                    /\ exec' = e1
                [] GoesToEngine(r) /\ ~e1.sched_pool ->
                    /\ phase' = "panicked"
                    /\ log' = log \o CallsOn("worker", r.wake_ups)
                    /\ engine' = engine
                    /\ exec' = TakePool(e1)
                [] OTHER ->
                    /\ phase' = phase
                    /\ log' = log \o WriteCalls(r, task.cid, task.ts, task.tag, sync)
                                  \o CallsOn("worker", r.wake_ups)
                    /\ engine' = IF GoesToEngine(r) /\ sync = "accept"
                                 THEN engine \cup {[cid |-> task.cid, pr |-> r.pr,
                                                    tag |-> task.tag, rows |-> r.rows,
                                                    modifies |-> r.to_be_write]}
                                 ELSE engine
                    /\ exec' = IF GoesToEngine(r) THEN TakePool(e1) ELSE e1
           /\ hist' = [hist EXCEPT !.writes = @ + 1,
                                   !.cutoffs = @ + (IF CutOff(task.cmd, r) THEN 1 ELSE 0)]
    /\ UNCHANGED <<cb, task, mvcc, reader, store>>

\* process_write, run by a worker inside the closure of process_by_worker.
process_write(sync, order) ==
    /\ [kind |-> "process", readonly |-> FALSE] \in pool
    /\ pool' = pool \ {[kind |-> "process", readonly |-> FALSE]}
    /\ \E r \in {process_write_impl(task.cmd, exec.lock_mgr, mvcc.new_ok, mvcc.orc, order)} :
       LET e1 == TakeLockMgr(TakeScheduler(exec))
       IN  /\ ret' = [kind |-> "write", res |-> r, lock_mgr |-> exec.lock_mgr]
           /\ CASE ~exec.scheduler \/ r.ret = "Panic" ->
                    /\ phase' = "panicked"
                    /\ log' = log
                    /\ engine' = engine
                    /\ exec' = e1
                [] GoesToEngine(r) /\ ~e1.sched_pool ->
                    /\ phase' = "panicked"
                    /\ log' = log \o CallsOn("worker", r.wake_ups)
                    /\ engine' = engine
                    /\ exec' = TakePool(e1)
                [] OTHER ->
                    /\ phase' = phase
                    /\ log' = log \o CallsOn("worker", r.wake_ups)
                                  \o WriteCalls(r, task.cid, task.ts, task.tag, sync)
                    /\ engine' = IF GoesToEngine(r) /\ sync = "accept"
                                 THEN engine \cup {[cid |-> task.cid, pr |-> r.pr,
                                                    tag |-> task.tag, rows |-> r.rows,
                                                    modifies |-> r.to_be_write]}
                                 ELSE engine
                    /\ exec' = IF GoesToEngine(r) THEN TakePool(e1) ELSE e1
           /\ hist' = [hist EXCEPT !.writes = @ + 1,
                                   !.cutoffs = @ + (IF CutOff(task.cmd, r) THEN 1 ELSE 0)]
    /\ UNCHANGED <<cb, task, mvcc, reader, store>>

\* The modifications of an accepted write, applied to the store: a
\* modification that releases the lock of a key removes it.
ApplyModifies(st, modifies) ==
    [st EXCEPT !.locks = [k \in Keys |->
        IF \E i \in 1 .. Len(modifies) : modifies[i].key = k /\ modifies[i].unlock
        THEN None ELSE st.locks[k]]]

\* An engine_cb that posts WriteFinished there and then, on the engine's
\* thread, instead of spawning the post on the pool: the variant C15 is
\* tested against.
engine_cb_inline(result) ==
    /\ \E w \in engine :
        /\ engine' = engine \ {w}
        /\ pool' = pool
        /\ log' = log \o <<Call("engine", "engine_cb", result)>>
                      \o Notify("engine", WriteFinished(w.cid, w.pr, result, w.tag))
        /\ store' = IF result.ok THEN ApplyModifies(store, w.modifies) ELSE store
    /\ UNCHANGED <<cb, task, exec, phase, mvcc, reader, ret, hist>>

\* engine_cb, invoked by the engine on its own thread with the result of
\* an accepted write: it spawns the posting closure on the pool.
engine_cb(result) ==
    /\ \E w \in engine :
        /\ engine' = engine \ {w}
        /\ pool' = pool \cup {[kind |-> "write_finished", cid |-> w.cid, pr |-> w.pr,
                               result |-> result, tag |-> w.tag, rows |-> w.rows]}
        /\ log' = log \o <<Call("engine", "engine_cb", result),
                            Call("engine", "spawn", "write_finished")>>
        /\ store' = IF result.ok THEN ApplyModifies(store, w.modifies) ELSE store
    /\ UNCHANGED <<cb, task, exec, phase, mvcc, reader, ret, hist>>

\* The closure engine_cb spawns, run by a worker: WriteFinished.
RunWriteFinished ==
    /\ \E c \in pool :
        /\ c.kind = "write_finished"
        /\ pool' = pool \ {c}
        /\ log' = log \o Notify("worker", WriteFinished(c.cid, c.pr, c.result, c.tag))
    /\ UNCHANGED <<cb, task, exec, phase, engine, mvcc, reader, store, ret, hist>>

\* ------------------------------------------------- one execution: Spec

ReadCmds == ResolveLockReadCmds \cup MvccByKeyCmds \cup MvccByStartTsCmds \cup ScanLockCmds

\* The calls of the reader that can fail for a read command.
ReaderAnswers(cmd) ==
    CASE cmd.type \in {"MvccByStartTs", "ScanLock"} -> {"ok", "first", "second"}
      [] cmd.type \in {"MvccByKey", "ResolveLock"} -> {"ok", "first"}
      [] OTHER -> {"ok"}

StoresOf(cmd) ==
    CASE cmd.type \in {"MvccByKey", "MvccByStartTs"} -> WriteStores
      [] Readonly(cmd) -> LockStores
      [] OTHER -> {EmptyStore}

\* A task, an Executor built by Executor::new with or without a lock
\* manager, and a snapshot (its answers).
Init ==
    /\ task \in {TaskNew(1, c) : c \in WriteCmds \cup ReadCmds}
    /\ exec \in {ExecutorNew(lm) : lm \in BOOLEAN}
    /\ phase = "new"
    /\ pool = {}
    /\ engine = {}
    /\ log = <<>>
    /\ mvcc \in (IF Readonly(task.cmd) THEN {NoMvcc} ELSE MvccAnswers(task.cmd))
    /\ reader \in ReaderAnswers(task.cmd)
    /\ store \in StoresOf(task.cmd)
    /\ ret = NoRet
    /\ hist = NoHist
    /\ cb = NoCallback

Next ==
    \/ \E snap_ok \in BOOLEAN, term \in {None, Some(7)} : execute(snap_ok, term)
    \/ RunSnapshotErr
    \/ process_read
    \/ \E sync \in {"accept", "reject"}, order \in Orders : process_write(sync, order)
    \/ \E result \in {OkUnit, EngineErr} : engine_cb(result)
    \/ RunWriteFinished

Spec == Init /\ [][Next]_vars

\* ------------------------------------- the ResolveLock rounds: SpecRL

\* The messages posted to the scheduler so far, in order.
Msgs == LET posts == SelectSeq(log, LAMBDA c : c.call = "on_msg")
        IN  [i \in 1 .. Len(posts) |-> posts[i].arg]
MsgsOf(cid) == SelectSeq(Msgs, LAMBDA m : m.cid = cid)

\* Nothing of the execution is pending any more.
Idle == phase # "new" /\ pool = {} /\ engine = {}

\* The most executions one ResolveLock is followed through.
MaxRounds == 2 * MaxKey + 4

\* What MvccTxn answers on a snapshot of the store for a write command of
\* a ResolveLock: rollback and commit of a key release the lock the key
\* holds for the transaction and write store.size[key] bytes.
SnapshotAnswers(st, cmd) ==
    [new_ok |-> TRUE,
     orc |-> [i \in 1 .. NumKeys(cmd) |->
                LET k == cmd.key_locks[i].key
                IN  IF st.locks[k].some /\ st.locks[k].v.ts = cmd.key_locks[i].lock.ts
                    THEN Outcome("ok", IF st.locks[k].v.pessimistic THEN "pess" ELSE "opt",
                                 st.size[k])
                    ELSE Outcome("ok", "none", 0)]]

\* The scheduler, on a ReadFinished or a successful WriteFinished whose pr
\* is NextCommand: it runs the command as a new task, with a new Executor,
\* on a snapshot of the store as it is now.
SchedulerNext ==
    /\ Idle
    /\ phase = "executed"
    /\ task.cid < MaxRounds
    /\ \E ms \in {MsgsOf(task.cid)} :
        /\ ms # <<>>
        /\ \E m \in {ms[Len(ms)]} :
            /\ m.type = "ReadFinished" \/ (m.type = "WriteFinished" /\ m.result.ok)
            /\ m.pr.kind = "NextCommand"
            /\ task' = TaskNew(task.cid + 1, m.pr.cmd)
            /\ mvcc' = IF Readonly(m.pr.cmd) THEN NoMvcc
                       ELSE SnapshotAnswers(store, m.pr.cmd)
    /\ exec' = ExecutorNew(ret.lock_mgr)
    /\ phase' = "new"
    /\ ret' = NoRet
    /\ UNCHANGED <<cb, pool, engine, log, reader, store, hist>>

\* The locks a ResolveLock is to resolve: those of the transactions in
\* txn_status at or after scan_key.
ToResolve(st, cmd) ==
    MatchingKeys(st, cmd.scan_key, DOMAIN cmd.txn_status)

InitRL ==
    /\ task \in {TaskNew(1, c) : c \in {x \in ResolveLockReadCmds : ~x.scan_key.some}}
    /\ exec = ExecutorNew(TRUE)
    /\ phase = "new"
    /\ pool = {}
    /\ engine = {}
    /\ log = <<>>
    /\ mvcc = NoMvcc
    /\ reader = "ok"
    /\ store \in ResolveStores
    /\ ret = NoRet
    /\ hist = [NoHist EXCEPT !.locks = Cardinality(ToResolve(store, task.cmd))]
    /\ cb = NoCallback

\* Every snapshot is there, the engine accepts every write and applies it.
NextRL ==
    \/ execute(TRUE, None)
    \/ process_read
    \/ \E order \in Orders : process_write("accept", order)
    \/ engine_cb(OkUnit)
    \/ RunWriteFinished
    \/ SchedulerNext

SpecRL == InitRL /\ [][NextRL]_vars

\* The pool runs what is spawned on it, the engine answers what it
\* accepted, the scheduler runs what it is handed.
FairSpecRL == SpecRL /\ WF_vars(NextRL)

\* The same rounds for a ResolveLock that starts from a scan_key: hist.from
\* keeps the scan_key the first command came with.
InitRLFrom ==
    /\ task \in {TaskNew(1, [c EXCEPT !.scan_key = sk]) :
                    c \in ResolveLockReadCmds,
                    sk \in {None} \cup {Some(k) : k \in Keys}}
    /\ exec = ExecutorNew(TRUE)
    /\ phase = "new"
    /\ pool = {}
    /\ engine = {}
    /\ log = <<>>
    /\ mvcc = NoMvcc
    /\ reader = "ok"
    /\ store \in ResolveStores
    /\ ret = NoRet
    /\ hist = [NoHist EXCEPT !.locks = Cardinality(ToResolve(store, task.cmd)),
                              !.from = task.cmd.scan_key]
    /\ cb = NoCallback

SpecRLFrom == InitRLFrom /\ [][NextRL]_vars

\* ------------------------- the write half of ResolveLock alone: SpecWH

\* Write halves of ResolveLock built by hand: the key_locks are in key
\* order, and a lock's ts need not be in txn_status.
ResolveLockAnyCmds ==
    {[type |-> "ResolveLock", ctx |-> Ctx, txn_status |-> m, scan_key |-> sk,
      key_locks |-> [i \in 1 .. Len(ks) |-> [key |-> ks[i], lock |-> LockOf(ts[i], FALSE)]]]
        : <<m, ks, ts, sk>> \in
            {<<m, ks, ts, sk>> \in StatusMaps \X (AscendingKeySeqs \ {<<>>})
                                      \X SeqsUpTo(Txns, MaxLen)
                                      \X ({None} \cup {Some(k) : k \in 1 .. MaxLen}) :
                /\ Len(ts) = Len(ks)
                /\ sk.some => sk.v = ks[Len(ks)]}}

InitWH ==
    /\ task \in {TaskNew(1, c) : c \in ResolveLockAnyCmds}
    /\ exec \in {ExecutorNew(lm) : lm \in BOOLEAN}
    /\ phase = "new"
    /\ pool = {}
    /\ engine = {}
    /\ log = <<>>
    /\ mvcc \in MvccAnswers(task.cmd)
    /\ reader = "ok"
    /\ store = EmptyStore
    /\ ret = NoRet
    /\ hist = NoHist
    /\ cb = NoCallback

\* The snapshot is there and the engine accepts and applies the write.
NextWH ==
    \/ execute(TRUE, None)
    \/ \E order \in Orders : process_write("accept", order)
    \/ engine_cb(OkUnit)
    \/ RunWriteFinished

SpecWH == InitWH /\ [][NextWH]_vars

\* ------------------------------------------------------ execute_callback

\* The kinds of StorageCb, each a callback not called yet; calls are the
\* arguments it is invoked with, panicked tells that the dispatch aborted.
StorageCbKinds ==
    {"Boolean", "Booleans", "MvccInfoByKey", "MvccInfoByStartTs", "Locks", "TxnStatus"}
StorageCb(kind) == [kind |-> kind, calls |-> <<>>, panicked |-> FALSE]

\* Ok(()) carries the unit value.
Unit == "()"
CbOk(v) == [ok |-> TRUE, v |-> v]
CbErr(e) == [ok |-> FALSE, err |-> e]
\* cb(arg), and panic!("process result mismatch")
Invoke(callback, arg) == [callback EXCEPT !.calls = Append(@, arg)]
Mismatch(callback) == [callback EXCEPT !.panicked = TRUE]

\* A dispatch that lets a Booleans callback take a plain Res as an empty
\* list of results: the variant C12 is tested against.
execute_callback_lenient(callback, pr) ==
    CASE callback.kind = "Boolean" ->
            CASE pr.kind = "Res" -> Invoke(callback, CbOk(Unit))
              [] pr.kind = "Failed" -> Invoke(callback, CbErr(pr.err))
              [] OTHER -> Mismatch(callback)
      [] callback.kind = "Booleans" ->
            CASE pr.kind = "MultiRes" -> Invoke(callback, CbOk(pr.results))
              [] pr.kind = "Failed" -> Invoke(callback, CbErr(pr.err))
              [] pr.kind = "Res" -> Invoke(callback, CbOk(<<>>))
              [] OTHER -> Mismatch(callback)
      [] callback.kind = "MvccInfoByKey" ->
            CASE pr.kind = "MvccKey" -> Invoke(callback, CbOk(pr.mvcc))
              [] pr.kind = "Failed" -> Invoke(callback, CbErr(pr.err))
              [] OTHER -> Mismatch(callback)
      [] callback.kind = "MvccInfoByStartTs" ->
            CASE pr.kind = "MvccStartTs" -> Invoke(callback, CbOk(pr.mvcc))
              [] pr.kind = "Failed" -> Invoke(callback, CbErr(pr.err))
              [] OTHER -> Mismatch(callback)
      [] callback.kind = "Locks" ->
            CASE pr.kind = "Locks" -> Invoke(callback, CbOk(pr.locks))
              [] pr.kind = "Failed" -> Invoke(callback, CbErr(pr.err))
              [] OTHER -> Mismatch(callback)
      [] callback.kind = "TxnStatus" ->
            CASE pr.kind = "TxnStatus" -> Invoke(callback, CbOk(<<pr.lock_ttl, pr.commit_ts>>))
              [] pr.kind = "Failed" -> Invoke(callback, CbErr(pr.err))
              [] OTHER -> Mismatch(callback)

\* execute_callback(callback, pr): the callback after the call.
execute_callback(callback, pr) ==
    CASE callback.kind = "Boolean" ->
            CASE pr.kind = "Res" -> Invoke(callback, CbOk(Unit))
              [] pr.kind = "Failed" -> Invoke(callback, CbErr(pr.err))
              [] OTHER -> Mismatch(callback)
      [] callback.kind = "Booleans" ->
            CASE pr.kind = "MultiRes" -> Invoke(callback, CbOk(pr.results))
              [] pr.kind = "Failed" -> Invoke(callback, CbErr(pr.err))
              [] OTHER -> Mismatch(callback)
      [] callback.kind = "MvccInfoByKey" ->
            CASE pr.kind = "MvccKey" -> Invoke(callback, CbOk(pr.mvcc))
              [] pr.kind = "Failed" -> Invoke(callback, CbErr(pr.err))
              [] OTHER -> Mismatch(callback)
      [] callback.kind = "MvccInfoByStartTs" ->
            CASE pr.kind = "MvccStartTs" -> Invoke(callback, CbOk(pr.mvcc))
              [] pr.kind = "Failed" -> Invoke(callback, CbErr(pr.err))
              [] OTHER -> Mismatch(callback)
      [] callback.kind = "Locks" ->
            CASE pr.kind = "Locks" -> Invoke(callback, CbOk(pr.locks))
              [] pr.kind = "Failed" -> Invoke(callback, CbErr(pr.err))
              [] OTHER -> Mismatch(callback)
      [] callback.kind = "TxnStatus" ->
            CASE pr.kind = "TxnStatus" -> Invoke(callback, CbOk(<<pr.lock_ttl, pr.commit_ts>>))
              [] pr.kind = "Failed" -> Invoke(callback, CbErr(pr.err))
              [] OTHER -> Mismatch(callback)

\* The results execute_callback is given: every kind of ProcessResult, with
\* the payloads the processors build.
ProcessResults ==
    {Res, NextCommand(CHOOSE c \in ResolveLockReadCmds : TRUE)}
    \cup {MultiRes([i \in 1 .. Len(ks) |-> LockedResult(ks[i])]) : ks \in KeySeqs}
    \cup {TxnStatus(ttl, c) : ttl \in {0, 3000}, c \in {0, 15}}
    \cup {Locks([i \in 1 .. Len(ks) |->
                    [primary_lock |-> 1, lock_version |-> 10, key |-> ks[i]]])
            : ks \in AscendingKeySeqs}
    \cup {MvccKey(find_mvcc_infos_by_key([EmptyStore EXCEPT !.writes[1] = w], 1, U64_MAX))
            : w \in SUBSET {15, 25}}
    \cup {MvccStartTs(None)}
    \cup {MvccStartTs(Some([key |-> k,
                            mvcc |-> find_mvcc_infos_by_key(
                                        [EmptyStore EXCEPT !.writes[k] = {15}], k, U64_MAX)]))
            : k \in 1 .. MaxLen}
    \cup {Failed(StorageError(e)) : e \in {TxnError(MvccOther(0)), InvalidTxnTso(10, 10)}}

\* The scheduler hands the result of a finished command to the command's
\* callback: one call of execute_callback.
DeliverResult ==
    /\ phase = "new"
    /\ cb' = execute_callback(cb, ret.pr)
    /\ phase' = IF cb'.panicked THEN "panicked" ELSE "executed"
    /\ UNCHANGED <<task, exec, pool, engine, log, mvcc, reader, store, ret, hist>>

\* A callback of any kind and a result of any kind, not delivered yet.
InitCB ==
    /\ cb \in {StorageCb(k) : k \in StorageCbKinds}
    /\ ret \in {[kind |-> "result", pr |-> pr] : pr \in ProcessResults}
    /\ task = TaskNew(1, CHOOSE c \in PauseCmds : TRUE)
    /\ exec = ExecutorNew(FALSE)
    /\ phase = "new"
    /\ pool = {}
    /\ engine = {}
    /\ log = <<>>
    /\ mvcc = NoMvcc
    /\ reader = "ok"
    /\ store = EmptyStore
    /\ hist = NoHist

NextCB == DeliverResult

SpecCB == InitCB /\ [][NextCB]_vars

\* ----------------------------------- find_mvcc_infos_by_key, seek by seek

\* The loop of find_mvcc_infos_by_key (process.rs:829-838) taken one seek at
\* a time, over chains that may hold a write with commit_ts = 0 (the record
\* a rollback of start_ts 0 leaves). phase is the position in the function
\* (seek, values, done, panicked) and ret holds its locals.

\* The most hits the loop is followed for.
MaxSeeks == 5

\* a - b on u64: below zero the subtraction aborts the thread in a build
\* with overflow checks (None) and wraps around in a build without.
U64Sub(a, b, overflow_checks) ==
    IF a >= b THEN Some(a - b)
    ELSE IF overflow_checks THEN None
    ELSE Some(U64_MAX - (b - a) + 1)

\* The write record found at commit_ts: a write committed at c was started
\* at StartOf(c), a rollback record sits at its own start_ts.
WriteAt(commit_ts) ==
    [commit_ts |-> commit_ts,
     start_ts |-> IF commit_ts >= 5 THEN StartOf(commit_ts) ELSE commit_ts]

FindStores == {[EmptyStore EXCEPT !.writes = w] : w \in [Keys -> SUBSET {0, 15, 25}]}

\* let opt = reader.seek_write(key, ts)?; Some((commit_ts, write)) =>
\* { ts = commit_ts - 1; writes.push((commit_ts, write)); }, None => break
SeekStep ==
    /\ phase = "seek"
    /\ Len(ret.writes) < MaxSeeks
    /\ LET opt == SeekWrite(store, ret.key, ret.ts)
       IN  IF ~opt.some
           THEN /\ phase' = "values"
                /\ ret' = ret
           ELSE LET ts == U64Sub(opt.v, 1, ret.overflow_checks)
                IN  IF ~ts.some
                    THEN /\ phase' = "panicked"
                         /\ ret' = ret
                    ELSE /\ phase' = "seek"
                         /\ ret' = [ret EXCEPT !.ts = ts.v,
                                               !.writes = Append(@, WriteAt(opt.v))]
    /\ UNCHANGED <<task, exec, pool, engine, log, mvcc, reader, store, hist, cb>>

\* for (ts, v) in reader.scan_values_in_default(key)? { values.push((ts, v)) };
\* Ok((lock, writes, values))
ScanValuesStep ==
    /\ phase = "values"
    /\ phase' = "done"
    /\ ret' = [ret EXCEPT !.values =
                  KeysInOrder({WriteAt(c).start_ts : c \in store.writes[ret.key]})]
    /\ UNCHANGED <<task, exec, pool, engine, log, mvcc, reader, store, hist, cb>>

\* find_mvcc_infos_by_key(reader, key, u64::MAX) after load_lock, in either
\* build.
InitFind ==
    /\ store \in FindStores
    /\ \E key \in Keys, overflow_checks \in BOOLEAN :
          ret = [kind |-> "find", key |-> key, ts |-> U64_MAX,
                 overflow_checks |-> overflow_checks,
                 lock |-> store.locks[key], writes |-> <<>>, values |-> <<>>]
    /\ phase = "seek"
    /\ task = TaskNew(1, CHOOSE c \in MvccByKeyCmds : c.key = ret.key)
    /\ exec = ExecutorNew(FALSE)
    /\ pool = {}
    /\ engine = {}
    /\ log = <<>>
    /\ mvcc = NoMvcc
    /\ reader = "ok"
    /\ hist = NoHist
    /\ cb = NoCallback

NextFind == SeekStep \/ ScanValuesStep

SpecFind == InitFind /\ [][NextFind]_vars

\* ------------------------------------------------------ checked properties

Terminal(m) == m.type \in {"ReadFinished", "WriteFinished", "FinishedWithErr"}
TerminalCount(s) == Cardinality({i \in 1 .. Len(s) : Terminal(s[i])})
\* The arguments of the calls of one name made so far, in order.
CallsOf(name) ==
    LET cs == SelectSeq(log, LAMBDA c : c.call = name)
    IN  [i \in 1 .. Len(cs) |-> cs[i].arg]
\* The write processor of this execution has returned r.
WriteRan == ret.kind = "write"
ReadRan == ret.kind = "read"

C2_ErrorIsFinishedWithErr ==
    ((WriteRan \/ ReadRan) /\ ret.res.ret = "Err" /\ phase = "executed")
        => MsgsOf(task.cid) = <<FinishedWithErr(task.cid, ret.res.err.v, task.tag)>>

\* C2 (amended): an error of the write processor ends in exactly one
\* FinishedWithErr carrying it; an error of the read processor ends in
\* exactly one ReadFinished whose pr is Failed with the error converted to
\* a storage error, and in no FinishedWithErr.
C2_ErrorMessages ==
    /\ (WriteRan /\ ret.res.ret = "Err" /\ phase = "executed")
         => MsgsOf(task.cid) = <<FinishedWithErr(task.cid, ret.res.err.v, task.tag)>>
    /\ (ReadRan /\ ret.res.ret = "Err" /\ phase = "executed")
         => MsgsOf(task.cid) =
              <<ReadFinished(task.cid, Failed(StorageError(ret.res.err.v)), task.tag)>>

\* C2 witness: the reader failed under a read command and ReadFinished
\* with Failed was posted.
C2_Witness ==
    /\ ReadRan /\ ret.res.ret = "Err"
    /\ Len(MsgsOf(task.cid)) = 1
    /\ MsgsOf(task.cid)[1].type = "ReadFinished"
    /\ MsgsOf(task.cid)[1].pr.kind = "Failed"

\* The positions of a key list whose outcome is res, in order.
RECURSIVE PositionsOf(_, _, _)
PositionsOf(orc, res, i) ==
    IF i > Len(orc) THEN <<>>
    ELSE (IF orc[i].res = res THEN <<i>> ELSE <<>>) \o PositionsOf(orc, res, i + 1)

\* C3: a Prewrite (optimistic or pessimistic) whose MvccTxn could be made:
\* if a mutation fails with another error than KeyIsLocked the command
\* fails with the first such error and nothing goes to the engine; else if
\* mutations are locked, to_be_write is empty, rows is 0 and pr is MultiRes
\* of the KeyIsLocked errors of all locked mutations in order; else the
\* modifications of all mutations are returned, rows is their number and pr
\* is MultiRes of nothing.
C3_PrewriteAllOrNothing ==
    (WriteRan /\ task.cmd.type = "Prewrite" /\ mvcc.new_ok) =>
        LET r == ret.res
            muts == task.cmd.mutations
            errs == PositionsOf(mvcc.orc, "err", 1)
            locked == PositionsOf(mvcc.orc, "locked", 1)
        IN  CASE errs # <<>> ->
                    /\ r.ret = "Err"
                    /\ r.err.v = TxnError(MvccOther(muts[errs[1]]))
                    /\ r.to_be_write = <<>>
                    /\ CallsOf("async_write") = <<>>
                    /\ MsgsOf(task.cid) = <<FinishedWithErr(task.cid, r.err.v, task.tag)>>
              [] locked # <<>> ->
                    /\ r.ret = "Ok"
                    /\ r.to_be_write = <<>>
                    /\ r.rows = 0
                    /\ r.pr = MultiRes([j \in 1 .. Len(locked) |->
                                [ok |-> FALSE,
                                 err |-> StorageError(TxnError(KeyIsLocked(muts[locked[j]])))]])
                    /\ CallsOf("async_write") = <<>>
              [] OTHER ->
                    /\ r.ret = "Ok"
                    /\ r.to_be_write =
                         [i \in 1 .. Len(muts) |->
                            [key |-> muts[i], size |-> mvcc.orc[i].size,
                             start_ts |-> task.cmd.start_ts, unlock |-> FALSE]]
                    /\ r.rows = Len(muts)
                    /\ r.pr = MultiRes(<<>>)

\* C3 witness: a pessimistic Prewrite of two mutations, both locked, came
\* back with both KeyIsLocked errors and nothing to write.
C3_Witness ==
    /\ WriteRan /\ task.cmd.type = "Prewrite" /\ task.cmd.for_update_ts # 0
    /\ Len(task.cmd.mutations) = 2
    /\ mvcc.new_ok /\ mvcc.orc[1].res = "locked" /\ mvcc.orc[2].res = "locked"
    /\ ret.res.pr.kind = "MultiRes" /\ Len(ret.res.pr.results) = 2
    /\ ret.res.to_be_write = <<>>

\* The case of C4: a Prewrite of [k1, k2], k1 prewritten, k2 locked.
C4_Case ==
    /\ WriteRan /\ phase = "executed" /\ task.cmd.type = "Prewrite"
    /\ Len(task.cmd.mutations) = 2
    /\ mvcc.new_ok /\ mvcc.orc[1].res = "ok" /\ mvcc.orc[2].res = "locked"

\* C4 (as stated): the result delivered is WriteFinished whose results are
\* [Ok, Err(KeyIsLocked(k2))], one entry per mutation.
C4_OneEntryPerMutation ==
    C4_Case =>
        MsgsOf(task.cid) =
            <<WriteFinished(task.cid,
                  MultiRes(<<[ok |-> TRUE],
                             [ok |-> FALSE,
                              err |-> StorageError(TxnError(KeyIsLocked(task.cmd.mutations[2])))]>>),
                  OkUnit, task.tag)>>

\* C4 (amended): the result delivered is WriteFinished with result Ok
\* whose results hold the KeyIsLocked error of k2 alone (the mutation that
\* succeeded has no entry); the engine is not called.
C4_OnlyLockedEntries ==
    C4_Case =>
        /\ MsgsOf(task.cid) =
            <<WriteFinished(task.cid,
                  MultiRes(<<[ok |-> FALSE,
                              err |-> StorageError(TxnError(KeyIsLocked(task.cmd.mutations[2])))]>>),
                  OkUnit, task.tag)>>
        /\ CallsOf("async_write") = <<>>
        /\ engine = {}

\* C4 witness: the case happened and WriteFinished was posted.
C4_Witness ==
    /\ C4_Case /\ Idle
    /\ Len(MsgsOf(task.cid)) = 1 /\ MsgsOf(task.cid)[1].type = "WriteFinished"

\* C5: a Commit with commit_ts <= lock_ts fails with InvalidTxnTso of
\* lock_ts and commit_ts: txn.commit is called for no key, the lock manager
\* and the engine are not called, and the only message for the cid is
\* FinishedWithErr with that error.
C5_CommitInvalidTs ==
    (WriteRan /\ phase = "executed" /\ task.cmd.type = "Commit"
     /\ task.cmd.commit_ts <= task.cmd.lock_ts) =>
        /\ ret.res.ret = "Err"
        /\ ret.res.err.v = InvalidTxnTso(task.cmd.lock_ts, task.cmd.commit_ts)
        /\ ret.res.calls = <<>>
        /\ CallsOf("wake_up") = <<>>
        /\ CallsOf("async_write") = <<>>
        /\ engine = {}
        /\ MsgsOf(task.cid) =
             <<FinishedWithErr(task.cid,
                   InvalidTxnTso(task.cmd.lock_ts, task.cmd.commit_ts), task.tag)>>

\* C5 witness: a Commit of a key with commit_ts = lock_ts, a lock manager
\* being there, was answered with FinishedWithErr.
C5_Witness ==
    /\ WriteRan /\ task.cmd.type = "Commit" /\ ret.lock_mgr
    /\ task.cmd.commit_ts = task.cmd.lock_ts /\ task.cmd.keys # <<>>
    /\ Len(MsgsOf(task.cid)) = 1 /\ MsgsOf(task.cid)[1].type = "FinishedWithErr"

\* The key list a releasing command walks, the start_ts its ReleasedLocks
\* is made with, and the commit_ts.
ReleaseKeys(cmd) ==
    CASE cmd.type = "Cleanup" -> <<cmd.key>>
      [] cmd.type = "ResolveLockLite" -> cmd.resolve_keys
      [] OTHER -> cmd.keys
ReleaseStartTs(cmd) == IF cmd.type = "Commit" THEN cmd.lock_ts ELSE cmd.start_ts
ReleaseCommitTs(cmd) ==
    IF cmd.type \in {"Commit", "ResolveLockLite"} THEN cmd.commit_ts ELSE 0

\* The wake_up call owed for the positions idx of a key list, told from
\* the answers of the MVCC primitives alone.
OwedWakeUp(start_ts, commit_ts, keys, idx) ==
    LET rel == SelectSeq(idx, LAMBDA i : mvcc.orc[i].rel # "none")
    IN  [call |-> "wake_up", start_ts |-> start_ts,
         hashes |-> [j \in 1 .. Len(rel) |-> Hash(keys[rel[j]])],
         commit_ts |-> commit_ts,
         pessimistic |-> (\E j \in 1 .. Len(rel) : mvcc.orc[rel[j]].rel = "pess")]

\* C6: with a lock manager, a Commit, Cleanup, Rollback, PessimisticRollback
\* or ResolveLockLite that succeeds makes exactly one wake_up call, with its
\* start_ts, its commit_ts (0 for the rollbacks and Cleanup), the hashes of
\* exactly the keys whose lock it released and pessimistic iff one of them
\* was pessimistic; a write round of ResolveLock makes exactly one such call
\* per start_ts among the locks it processed, each with the keys of that
\* start_ts only; without a lock manager no call is made.
C6_WakeUp ==
    (WriteRan /\ ret.res.ret = "Ok") =>
        LET r == ret.res
            cmd == task.cmd
            n == Len(r.calls)
            processed == {cmd.key_locks[i].lock.ts : i \in 1 .. n}
        IN  /\ CallsOf("wake_up") = r.wake_ups
            /\ ~ret.lock_mgr => r.wake_ups = <<>>
            /\ (ret.lock_mgr /\ cmd.type \in {"Commit", "Cleanup", "Rollback",
                                             "PessimisticRollback", "ResolveLockLite"})
                 => r.wake_ups =
                      <<OwedWakeUp(ReleaseStartTs(cmd), ReleaseCommitTs(cmd), ReleaseKeys(cmd),
                                   KeysInOrder(1 .. Len(ReleaseKeys(cmd))))>>
            /\ (ret.lock_mgr /\ cmd.type = "ResolveLock")
                 => /\ Len(r.wake_ups) = Cardinality(processed)
                    /\ \A T \in processed :
                         \E j \in 1 .. Len(r.wake_ups) :
                            r.wake_ups[j] =
                              OwedWakeUp(T, cmd.txn_status[T],
                                         [i \in 1 .. n |-> cmd.key_locks[i].key],
                                         KeysInOrder({i \in 1 .. n :
                                                        cmd.key_locks[i].lock.ts = T}))

\* C6 witness: a write round of ResolveLock released a lock of each of two
\* transactions, one of them pessimistic, and woke up both.
C6_Witness ==
    /\ WriteRan /\ ret.res.ret = "Ok" /\ ret.lock_mgr /\ task.cmd.type = "ResolveLock"
    /\ Len(ret.res.wake_ups) = 2
    /\ \A j \in 1 .. 2 : Len(ret.res.wake_ups[j].hashes) = 1
    /\ \E j \in 1 .. 2 : ret.res.wake_ups[j].pessimistic
    /\ \E j \in 1 .. 2 : ~ret.res.wake_ups[j].pessimistic

\* The read/write rounds of a ResolveLock are over: the last execution
\* answered Res.
RLEnded ==
    /\ Idle /\ phase = "executed"
    /\ MsgsOf(task.cid) # <<>>
    /\ LET m == MsgsOf(task.cid)[Len(MsgsOf(task.cid))]
       IN  /\ m.type = "ReadFinished" \/ (m.type = "WriteFinished" /\ m.result.ok)
           /\ m.pr.kind = "Res"

\* The hashes of the keys whose lock of transaction T one write to the
\* engine releases; the writes that touch T; the wake_up calls for T.
FreedBy(w, T) == {Hash(w.modifies[i].key) : i \in {j \in 1 .. Len(w.modifies) :
                        w.modifies[j].start_ts = T /\ w.modifies[j].unlock}}
WritesOf(T) == SelectSeq(CallsOf("async_write"), LAMBDA w : FreedBy(w, T) # {})
WakeUpsOf(T) == SelectSeq(CallsOf("wake_up"), LAMBDA c : c.start_ts = T)
Freed(T) == UNION {FreedBy(WritesOf(T)[i], T) : i \in 1 .. Len(WritesOf(T))}
HashSet(c) == {c.hashes[i] : i \in 1 .. Len(c.hashes)}

\* The case of C7: a ResolveLock that took several write rounds to free
\* locks of both transactions of its txn_status has ended.
C7_Case ==
    /\ RLEnded /\ hist.writes >= 2
    /\ \A T \in Txns : T \in DOMAIN task.cmd.txn_status /\ Freed(T) # {}

\* C7 (as stated): over all rounds the lock manager got exactly 2 wake_up
\* calls, one per start_ts, each with all hashes freed for that transaction.
C7_TwoWakeUps ==
    C7_Case => /\ Len(CallsOf("wake_up")) = 2
               /\ \A T \in Txns : /\ Len(WakeUpsOf(T)) = 1
                                  /\ HashSet(WakeUpsOf(T)[1]) = Freed(T)

\* C7 (amended): every write round wakes up once per start_ts among the
\* locks it processed, with the hashes that round freed for it; so over all
\* rounds a transaction gets one wake_up call per round that freed locks of
\* it (more than one when its locks span rounds), no hash is reported
\* twice, and the hashes of its calls together are the hashes freed for it.
C7_WakeUpPerRound ==
    \A T \in Txns :
        /\ Len(WakeUpsOf(T)) = Len(WritesOf(T))
        /\ \A i \in 1 .. Len(WakeUpsOf(T)) :
             /\ HashSet(WakeUpsOf(T)[i]) = FreedBy(WritesOf(T)[i], T)
             /\ Len(WakeUpsOf(T)[i].hashes) = Cardinality(FreedBy(WritesOf(T)[i], T))
             /\ \A j \in 1 .. Len(WakeUpsOf(T)) :
                  i # j => HashSet(WakeUpsOf(T)[i]) \cap HashSet(WakeUpsOf(T)[j]) = {}
        /\ UNION {HashSet(WakeUpsOf(T)[i]) : i \in 1 .. Len(WakeUpsOf(T))} = Freed(T)

\* C7 witness: the case happened and the lock manager got three calls.
C7_Witness == C7_Case /\ Len(CallsOf("wake_up")) = 3

\* Every commit_ts of the txn_status is 0 or later than its start_ts.
ValidStatus ==
    \A T \in DOMAIN task.cmd.txn_status :
        task.cmd.txn_status[T] = 0 \/ task.cmd.txn_status[T] > T

\* No lock of a transaction of the txn_status is left in the store.
NoneLeft ==
    \A k \in Keys : store.locks[k].some => store.locks[k].v.ts \notin DOMAIN task.cmd.txn_status

\* A round made progress: a read half answered Res or handed at least one
\* (key, lock) pair on; a write half released the lock of at least one key.
RoundProgress ==
    /\ ReadRan =>
         /\ ret.res.ret = "Ok"
         /\ \/ ret.res.pr.kind = "Res"
            \/ ret.res.pr.kind = "NextCommand" /\ ret.res.pr.cmd.key_locks # <<>>
    /\ WriteRan =>
         /\ ret.res.ret = "Ok"
         /\ \E i \in 1 .. Len(ret.res.to_be_write) : ret.res.to_be_write[i].unlock

CeilDiv(n, b) == (n + b - 1) \div b

RECURSIVE PrefixSize(_)
PrefixSize(j) == IF j = 0 THEN 0 ELSE mvcc.orc[j].size + PrefixSize(j - 1)

\* C10: a write round of ResolveLock that succeeds processed the first n
\* key_locks, where no shorter prefix reached MAX_TXN_WRITE_SIZE; what it
\* hands to the engine is at most MAX_TXN_WRITE_SIZE - 1 plus the bytes of
\* the last key processed; if the size was reached the continuation's
\* scan_key is the last key processed and the key_locks after it were given
\* to no MVCC call; else all key_locks were processed and the scan_key is
\* the one the round came with.
C10_WriteSizeCutoff ==
    (WriteRan /\ task.cmd.type = "ResolveLock" /\ ret.res.ret = "Ok") =>
        LET r == ret.res
            cmd == task.cmd
            n == Len(r.calls)
        IN  /\ n >= 1 /\ n <= Len(cmd.key_locks)
            /\ \A i \in 1 .. n : r.calls[i].key = cmd.key_locks[i].key
            /\ \A j \in 0 .. n - 1 : PrefixSize(j) < MAX_TXN_WRITE_SIZE
            /\ SumSizes(r.to_be_write) = PrefixSize(n)
            /\ SumSizes(r.to_be_write) <= MAX_TXN_WRITE_SIZE - 1 + mvcc.orc[n].size
            /\ IF PrefixSize(n) >= MAX_TXN_WRITE_SIZE
               THEN /\ r.pr.kind = "NextCommand"
                    /\ r.pr.cmd.scan_key = Some(cmd.key_locks[n].key)
                    /\ r.pr.cmd.key_locks = <<>>
               ELSE /\ n = Len(cmd.key_locks)
                    /\ IF cmd.scan_key.some
                       THEN r.pr.kind = "NextCommand" /\ r.pr.cmd.scan_key = cmd.scan_key
                       ELSE r.pr = Res

\* C10 witness: the first of two key_locks filled the write size; the
\* round stopped there and left the second one untouched.
C10_Witness ==
    /\ WriteRan /\ task.cmd.type = "ResolveLock" /\ ret.res.ret = "Ok"
    /\ Len(task.cmd.key_locks) = 2 /\ Len(ret.res.calls) = 1
    /\ ret.res.pr.kind = "NextCommand"
    /\ ret.res.pr.cmd.scan_key = Some(task.cmd.key_locks[1].key)
    /\ SumSizes(ret.res.to_be_write) >= MAX_TXN_WRITE_SIZE

\* The threads that made the calls of one name so far.
ThreadsOf(name) == {log[i].thread : i \in {j \in 1 .. Len(log) : log[j].call = name}}
\* The names of the calls one thread made so far.
CallsBy(thread) == {log[i].call : i \in {j \in 1 .. Len(log) : log[j].thread = thread}}

\* C11: when the write processor returns a WriteResult without lock_info
\* and with nothing to write, the engine is never called: the worker that
\* ran the processor posts WriteFinished with the processor's pr and
\* result Ok itself, nothing is handed to the engine or spawned for it, and
\* that message is the only one for the cid.
C11_NothingToWrite ==
    (WriteRan /\ ret.res.ret = "Ok" /\ ~ret.res.lock_info.some /\ ret.res.to_be_write = <<>>)
        => /\ phase = "executed"
           /\ CallsOf("async_write") = <<>>
           /\ engine = {}
           /\ pool = {}
           /\ CallsOf("engine_cb") = <<>>
           /\ MsgsOf(task.cid) = <<WriteFinished(task.cid, ret.res.pr, OkUnit, task.tag)>>
           /\ ThreadsOf("on_msg") = {"worker"}
           /\ CallsOf("spawn") = <<"process">>
           /\ exec.sched_pool

\* C11 witness: a Pause came back with nothing to write and WriteFinished
\* of Res was posted by the worker.
C11_Witness ==
    /\ WriteRan /\ task.cmd.type = "Pause"
    /\ ret.res.to_be_write = <<>> /\ ~ret.res.lock_info.some
    /\ MsgsOf(task.cid) = <<WriteFinished(task.cid, Res, OkUnit, task.tag)>>
    /\ CallsOf("async_write") = <<>>

\* The kind of ProcessResult each kind of callback accepts besides Failed,
\* and the payload a result of each kind carries.
AcceptedKind(k) ==
    CASE k = "Boolean" -> "Res"
      [] k = "Booleans" -> "MultiRes"
      [] k = "MvccInfoByKey" -> "MvccKey"
      [] k = "MvccInfoByStartTs" -> "MvccStartTs"
      [] k = "Locks" -> "Locks"
      [] k = "TxnStatus" -> "TxnStatus"
PayloadOf(pr) ==
    CASE pr.kind = "Res" -> Unit
      [] pr.kind = "MultiRes" -> pr.results
      [] pr.kind \in {"MvccKey", "MvccStartTs"} -> pr.mvcc
      [] pr.kind = "Locks" -> pr.locks
      [] pr.kind = "TxnStatus" -> <<pr.lock_ttl, pr.commit_ts>>
\* A result is at hand for a callback, and execute_callback has returned
\* or aborted.
Delivered == ret.kind = "result" /\ phase # "new"

\* C12: a callback is not called before the dispatch; execute_callback
\* invokes it exactly once, with Err(err) for Failed whatever the kind of
\* the callback and with Ok(payload) for the one kind of result the
\* callback accepts; for every other pairing, NextCommand with any callback
\* among them, it panics and the callback is not invoked.
C12_CallbackDispatch ==
    /\ (ret.kind = "result" /\ phase = "new") => cb.calls = <<>> /\ ~cb.panicked
    /\ Delivered =>
        LET pr == ret.pr
        IN  CASE pr.kind = "Failed" -> cb.calls = <<CbErr(pr.err)>> /\ ~cb.panicked
              [] pr.kind = AcceptedKind(cb.kind) ->
                    cb.calls = <<CbOk(PayloadOf(pr))>> /\ ~cb.panicked
              [] OTHER -> cb.calls = <<>> /\ cb.panicked /\ phase = "panicked"

\* C12 witness: a TxnStatus callback was called with the pair of a
\* TxnStatus result.
C12_Witness ==
    /\ Delivered /\ cb.kind = "TxnStatus" /\ ret.pr.kind = "TxnStatus"
    /\ cb.calls = <<CbOk(<<3000, 15>>)>>

\* C13: every WriteResult the write processor returns has a lock_info only
\* together with an empty to_be_write and rows = 0, and it has one exactly
\* when the command is AcquirePessimisticLock and one of the keys it tried
\* answered KeyIsLocked.
C13_LockInfo ==
    (WriteRan /\ ret.res.ret = "Ok") =>
        LET r == ret.res
            tried == 1 .. Len(r.calls)
        IN  /\ r.lock_info.some => (r.to_be_write = <<>> /\ r.rows = 0)
            /\ r.lock_info.some <=>
                 /\ task.cmd.type = "AcquirePessimisticLock"
                 /\ \E i \in tried : mvcc.orc[i].res = "locked"

\* C13 witness: an AcquirePessimisticLock of two keys locked the first,
\* writing bytes, met the lock of the second and came back with a
\* lock_info, nothing to write and rows 0.
C13_Witness ==
    /\ WriteRan /\ ret.res.ret = "Ok" /\ task.cmd.type = "AcquirePessimisticLock"
    /\ Len(task.cmd.keys) = 2
    /\ mvcc.orc[1].res = "ok" /\ mvcc.orc[1].size > 0 /\ mvcc.orc[2].res = "locked"
    /\ ret.res.lock_info.some /\ ret.res.to_be_write = <<>> /\ ret.res.rows = 0

\* The snapshot of this execution failed: execute spawned the error post.
SnapshotFailed == log # <<>> /\ log[1] = Call("caller", "spawn", "snapshot_err")

\* C14: the thread that calls execute only spawns: every post to the
\* scheduler, every call of the engine and of the lock manager is made by a
\* worker of the pool, and a processor has run only after execute spawned
\* the processing closure. On a snapshot error no processor runs, the
\* engine and the lock manager are not called, nothing is posted while the
\* spawned closure waits, and once it ran the one message is FinishedWithErr
\* with the snapshot's error.
C14_CallerOnlySpawns ==
    /\ CallsBy("caller") \subseteq {"spawn"}
    /\ Len(SelectSeq(log, LAMBDA c : c.thread = "caller")) <= 1
    /\ ThreadsOf("on_msg") \cup ThreadsOf("async_write") \cup ThreadsOf("wake_up")
         \subseteq {"worker"}
    /\ phase = "new" => log = <<>> /\ ret = NoRet
    /\ (WriteRan \/ ReadRan) => log[1] = Call("caller", "spawn", "process")
    /\ (phase # "new" /\ ~SnapshotFailed /\ ret = NoRet)
         => Msgs = <<>> /\ pool = {[kind |-> "process", readonly |-> Readonly(task.cmd)]}
    /\ SnapshotFailed =>
         /\ ret = NoRet
         /\ CallsOf("async_write") = <<>> /\ engine = {}
         /\ CallsOf("wake_up") = <<>>
         /\ IF pool # {}
            THEN Msgs = <<>> /\ Len(log) = 1
            ELSE /\ Msgs = <<FinishedWithErr(task.cid, TxnError(EngineErr.err), task.tag)>>
                 /\ Len(log) = 2

\* C14 witness: the snapshot of a write command failed and the worker that
\* ran the spawned closure posted FinishedWithErr.
C14_Witness ==
    /\ SnapshotFailed /\ ~Readonly(task.cmd) /\ pool = {}
    /\ Len(Msgs) = 1 /\ Msgs[1].type = "FinishedWithErr"
    /\ ThreadsOf("on_msg") = {"worker"}

\* The engine accepted the write of this execution.
WriteAccepted ==
    /\ WriteRan /\ GoesToEngine(ret.res)
    /\ \E i \in 1 .. Len(CallsOf("async_write")) : CallsOf("async_write")[i].accepted

\* C15: when the engine accepted a non-empty write, the worker that ran
\* the write processor posts nothing; the engine's thread, invoking the
\* callback, only spawns; while the write or the spawned closure is pending
\* nothing is posted; and once the closure ran the one message for the cid
\* is WriteFinished with the cid and tag of the task, the pr of the write
\* processor and the very result the engine gave, an error included:
\* FinishedWithErr is never posted.
C15_EngineCallback ==
    WriteAccepted =>
        LET cbs == CallsOf("engine_cb")
        IN  /\ CallsOf("async_write") =
                 <<[ctx |-> ret.res.ctx, modifies |-> ret.res.to_be_write, accepted |-> TRUE]>>
            /\ CallsBy("engine") \subseteq {"engine_cb", "spawn"}
            /\ ThreadsOf("on_msg") \subseteq {"worker"}
            /\ Len(cbs) <= 1
            /\ (engine # {}) <=> (cbs = <<>>)
            /\ (engine # {} \/ pool # {}) => Msgs = <<>>
            /\ (engine = {} /\ pool = {}) =>
                 Msgs = <<WriteFinished(task.cid, ret.res.pr, cbs[1], task.tag)>>
            /\ \A c \in pool : /\ c.kind = "write_finished"
                               /\ cbs # <<>> /\ c.result = cbs[1]
                               /\ c.cid = task.cid /\ c.pr = ret.res.pr /\ c.tag = task.tag

\* C15 witness: the engine accepted a write and failed it later; the one
\* message is WriteFinished with the engine's error.
C15_Witness ==
    /\ WriteAccepted /\ Idle
    /\ CallsOf("engine_cb") = <<EngineErr>>
    /\ Msgs = <<WriteFinished(task.cid, ret.res.pr, EngineErr, task.tag)>>

\* engine.async_write returned an error to the worker of this execution.
WriteRejected ==
    /\ WriteRan
    /\ \E i \in 1 .. Len(CallsOf("async_write")) : ~CallsOf("async_write")[i].accepted

\* C16: when engine.async_write returns an error there and then, the
\* worker that called it posts FinishedWithErr with the cid, the tag and
\* the engine's error converted; that is the only message for the cid, no
\* WriteFinished among them; the write is not pending in the engine, whose
\* callback is never invoked, and nothing is left on the pool.
C16_SyncEngineError ==
    WriteRejected =>
        /\ GoesToEngine(ret.res)
        /\ CallsOf("async_write") =
             <<[ctx |-> ret.res.ctx, modifies |-> ret.res.to_be_write, accepted |-> FALSE]>>
        /\ MsgsOf(task.cid) =
             <<FinishedWithErr(task.cid, TxnError(EngineErr.err), task.tag)>>
        /\ ThreadsOf("on_msg") = {"worker"}
        /\ engine = {} /\ pool = {}
        /\ CallsOf("engine_cb") = <<>>
        /\ store = EmptyStore

\* C16 witness: the engine rejected the write of a Commit that released a
\* lock; FinishedWithErr was posted after the wake_up.
C16_Witness ==
    /\ WriteRejected /\ task.cmd.type = "Commit" /\ ret.lock_mgr
    /\ Len(CallsOf("wake_up")) = 1 /\ CallsOf("wake_up")[1].hashes # <<>>
    /\ Len(Msgs) = 1 /\ Msgs[1].type = "FinishedWithErr"

\* The case of C17: an AcquirePessimisticLock whose key at position j is
\* the first not to be locked successfully, and answers KeyIsLocked.
FirstLocked(j) ==
    /\ WriteRan /\ task.cmd.type = "AcquirePessimisticLock" /\ mvcc.new_ok
    /\ j \in 1 .. Len(task.cmd.keys)
    /\ mvcc.orc[j].res = "locked"
    /\ \A i \in 1 .. j - 1 : mvcc.orc[i].res = "ok"

\* C17: the loop of AcquirePessimisticLock stops at the first key that
\* answers KeyIsLocked: the keys up to it are the only ones tried, the
\* results hold that one error, to_be_write is empty (also when earlier
\* keys were locked and wrote bytes), rows is 0 and lock_info is the lock
\* taken from the error with is_first_lock and wait_timeout of the command;
\* the one message posted is WaitForLock with the cid, the task's ts, that
\* pr and that lock_info, and the engine is not called.
C17_AcquireFailFast ==
    \A j \in 1 .. MaxLen :
        FirstLocked(j) =>
            LET r == ret.res
                cmd == task.cmd
                error == [ok |-> FALSE,
                          err |-> StorageError(TxnError(KeyIsLocked(cmd.keys[j])))]
            IN  /\ r.ret = "Ok"
                /\ Len(r.calls) = j
                /\ \A i \in 1 .. j : /\ r.calls[i].op = "acquire_pessimistic_lock"
                                     /\ r.calls[i].key = cmd.keys[i]
                /\ r.pr = MultiRes(<<error>>)
                /\ r.to_be_write = <<>>
                /\ r.rows = 0
                /\ r.lock_info = Some([lock |-> [hash |-> Hash(cmd.keys[j])],
                                       is_first_lock |-> cmd.is_first_lock,
                                       wait_timeout |-> cmd.wait_timeout])
                /\ task.ts = cmd.start_ts
                /\ Msgs = <<[type |-> "WaitForLock", cid |-> task.cid,
                             start_ts |-> cmd.start_ts, pr |-> MultiRes(<<error>>),
                             lock |-> [hash |-> Hash(cmd.keys[j])],
                             is_first_lock |-> cmd.is_first_lock,
                             wait_timeout |-> cmd.wait_timeout]>>
                /\ ThreadsOf("on_msg") = {"worker"}
                /\ CallsOf("async_write") = <<>>
                /\ engine = {} /\ pool = {}

\* C17 witness: the first key of an AcquirePessimisticLock answered
\* KeyIsLocked; the second, locked as well, was not tried, and WaitForLock
\* for the first was posted.
C17_Witness ==
    /\ FirstLocked(1) /\ Len(task.cmd.keys) = 2 /\ mvcc.orc[2].res = "locked"
    /\ task.cmd.is_first_lock
    /\ Len(ret.res.calls) = 1
    /\ Len(Msgs) = 1 /\ Msgs[1].type = "WaitForLock"
    /\ Msgs[1].lock = [hash |-> Hash(task.cmd.keys[1])]

\* C18 (as stated): ResolveLockLite follows the rule of ResolveLock: with
\* commit_ts = 0 every key is rolled back, with commit_ts > start_ts every
\* key is committed at commit_ts, and with 0 < commit_ts <= start_ts the
\* command fails with InvalidTxnTso of start_ts and commit_ts and txn.commit
\* is called for no key.
C18_ResolveLockLiteRule ==
    (WriteRan /\ task.cmd.type = "ResolveLockLite" /\ mvcc.new_ok) =>
        LET r == ret.res
            cmd == task.cmd
            walked(op, arg) ==
                /\ \A i \in 1 .. Len(r.calls) :
                     /\ r.calls[i].op = op /\ r.calls[i].arg = arg
                     /\ r.calls[i].key = cmd.resolve_keys[i]
                     /\ r.calls[i].start_ts = cmd.start_ts
                /\ r.ret = "Ok" => Len(r.calls) = Len(cmd.resolve_keys)
        IN  CASE cmd.commit_ts = 0 -> walked("rollback", 0)
              [] cmd.commit_ts > cmd.start_ts -> walked("commit", cmd.commit_ts)
              [] OTHER ->
                    /\ r.ret = "Err"
                    /\ r.err.v = InvalidTxnTso(cmd.start_ts, cmd.commit_ts)
                    /\ r.calls = <<>>
                    /\ r.to_be_write = <<>>
                    /\ CallsOf("async_write") = <<>>

\* C19 (as stated): whenever the read processor returns, and whenever the
\* write processor returns after it called an MVCC primitive, with a result
\* or with an error, the statistics of its MvccReader or MvccTxn have been
\* added to the caller's accumulator.
C19_StatisticsAdded ==
    /\ (ReadRan /\ ret.res.ret \in {"Ok", "Err"}) => ret.res.stats_added
    /\ (WriteRan /\ ret.res.ret \in {"Ok", "Err"} /\ ret.res.calls # <<>>)
         => ret.res.stats_added

\* The commit_ts the txn_status of the round names for the i-th key_lock
\* (if any), and whether the rule lets the key be resolved with it.
StatusKnown(i) == task.cmd.key_locks[i].lock.ts \in DOMAIN task.cmd.txn_status
StatusOf(i) == task.cmd.txn_status[task.cmd.key_locks[i].lock.ts]
Resolvable(i) ==
    StatusKnown(i) /\ (StatusOf(i) = 0 \/ StatusOf(i) > task.cmd.key_locks[i].lock.ts)
\* The loop gets to the i-th key_lock: every one before it was resolvable,
\* its MVCC call succeeded and the write size was not reached.
LoopReaches(i) ==
    \A j \in 1 .. i - 1 :
        Resolvable(j) /\ mvcc.orc[j].res = "ok" /\ PrefixSize(j) < MAX_TXN_WRITE_SIZE

\* C20: in a write round of ResolveLock, for every (key, lock) the loop
\* gets to, in the order of the batch: a lock.ts missing from txn_status
\* aborts the worker (nothing is posted, no wake_up, no write); commit_ts =
\* 0 calls txn.rollback(key) and commit_ts > lock.ts calls txn.commit(key,
\* commit_ts), both under start_ts = lock.ts; any other commit_ts fails the
\* round with InvalidTxnTso of lock.ts and commit_ts before an MVCC call is
\* made for the key: nothing is handed to the engine, also not what the
\* keys before it wrote, no wake_up is issued, and the one message is
\* FinishedWithErr with that error.
C20_ResolveRule ==
    (WriteRan /\ task.cmd.type = "ResolveLock" /\ mvcc.new_ok) =>
        \A i \in 1 .. Len(task.cmd.key_locks) :
            LoopReaches(i) =>
                LET r == ret.res
                    key == task.cmd.key_locks[i].key
                    ts == task.cmd.key_locks[i].lock.ts
                    called(op, arg) ==
                        r.ret # "Panic" =>
                            /\ Len(r.calls) >= i
                            /\ r.calls[i] = [op |-> op, key |-> key, arg |-> arg,
                                             start_ts |-> ts]
                IN  CASE ~StatusKnown(i) ->
                            /\ r.ret = "Panic" /\ phase = "panicked"
                            /\ Msgs = <<>>
                            /\ CallsOf("wake_up") = <<>>
                            /\ CallsOf("async_write") = <<>> /\ engine = {}
                      [] StatusOf(i) = 0 -> called("rollback", 0)
                      [] StatusOf(i) > ts -> called("commit", StatusOf(i))
                      [] OTHER ->
                            /\ r.ret = "Err"
                            /\ r.err.v = InvalidTxnTso(ts, StatusOf(i))
                            /\ Len(r.calls) = i - 1
                            /\ r.to_be_write = <<>>
                            /\ CallsOf("wake_up") = <<>>
                            /\ CallsOf("async_write") = <<>> /\ engine = {}
                            /\ Msgs = <<FinishedWithErr(task.cid,
                                                        InvalidTxnTso(ts, StatusOf(i)),
                                                        task.tag)>>

\* C20 witness: with a lock manager there, the first key of a batch was
\* committed, releasing its lock and writing bytes; the commit_ts of the
\* second was its lock's ts: the round failed with InvalidTxnTso, woke
\* nobody up and wrote nothing.
C20_Witness ==
    /\ WriteRan /\ task.cmd.type = "ResolveLock" /\ mvcc.new_ok /\ ret.lock_mgr
    /\ Len(task.cmd.key_locks) = 2 /\ LoopReaches(2)
    /\ StatusOf(1) > task.cmd.key_locks[1].lock.ts
    /\ mvcc.orc[1].rel = "opt" /\ mvcc.orc[1].size > 0
    /\ StatusKnown(2) /\ StatusOf(2) = task.cmd.key_locks[2].lock.ts
    /\ ret.res.ret = "Err" /\ ret.res.err.v.err = "InvalidTxnTso"
    /\ Len(ret.res.calls) = 1
    /\ CallsOf("wake_up") = <<>> /\ CallsOf("async_write") = <<>>
    /\ Len(Msgs) = 1 /\ Msgs[1].type = "FinishedWithErr"


\* The locks of the snapshot a ResolveLock read half has to find: at or
\* after its scan_key, of a transaction named in its txn_status.
C21_Matching ==
    {k \in Keys : /\ (task.cmd.scan_key.some => k >= task.cmd.scan_key.v)
                  /\ store.locks[k].some
                  /\ store.locks[k].v.ts \in DOMAIN task.cmd.txn_status}
C21_Case ==
    /\ ReadRan /\ task.cmd.type = "ResolveLock" /\ ret.res.ret = "Ok"

WalkedKeys(cmd) ==
    CASE cmd.type = "Prewrite" -> cmd.mutations
      [] cmd.type = "ResolveLock" ->
            [i \in 1 .. Len(cmd.key_locks) |-> cmd.key_locks[i].key]
      [] cmd.type = "TxnHeartBeat" -> <<cmd.primary_key>>
      [] cmd.type = "Pause" -> <<>>
      [] OTHER -> ReleaseKeys(cmd)
\* The arm of the command gets to MvccTxn::new.
NewCalled ==
    /\ WriteRan
    /\ task.cmd.type # "Pause"
    /\ task.cmd.type = "Commit" => task.cmd.commit_ts > task.cmd.lock_ts
    /\ task.cmd.type = "PessimisticRollback" => ret.lock_mgr
\* The first error of an MVCC primitive that is not a collected KeyIsLocked
\* is at position j of the keys (0: MvccTxn::new itself fails).
FirstError(j) ==
    /\ NewCalled
    /\ IF j = 0 THEN ~mvcc.new_ok
       ELSE /\ mvcc.new_ok
            /\ j <= Len(WalkedKeys(task.cmd))
            /\ mvcc.orc[j].res = "err"
            /\ CASE task.cmd.type = "Prewrite" ->
                        \A i \in 1 .. j - 1 : mvcc.orc[i].res # "err"
                 [] task.cmd.type = "ResolveLock" ->
                        LoopReaches(j) /\ Resolvable(j)
                 [] OTHER -> \A i \in 1 .. j - 1 : mvcc.orc[i].res = "ok"

\* C22: for every write command, an error of an MVCC primitive that is not
\* a collected KeyIsLocked ends the command at that key: no later key is
\* passed to a primitive, nothing is handed to async_write or written, no
\* wake_up is made, and the one message posted is FinishedWithErr with that
\* error.
C22_ErrorAborts ==
    \A j \in 0 .. MaxLen :
        FirstError(j) =>
            LET r == ret.res
                e == IF j = 0 THEN TxnNewError
                     ELSE TxnError(MvccOther(WalkedKeys(task.cmd)[j]))
            IN  /\ r.ret = "Err" /\ r.err = Some(e)
                /\ Len(r.calls) = j
                /\ \A i \in 1 .. j : r.calls[i].key = WalkedKeys(task.cmd)[i]
                /\ r.to_be_write = <<>>
                /\ CallsOf("async_write") = <<>> /\ engine = {}
                /\ CallsOf("wake_up") = <<>>
                /\ Msgs = <<FinishedWithErr(task.cid, e, task.tag)>>

\* C22 witness: a Commit of MaxLen keys released a lock at its first key,
\* failed at the second, and ended with FinishedWithErr and nothing written.
C22_Witness ==
    /\ FirstError(2) /\ task.cmd.type = "Commit" /\ Len(task.cmd.keys) = MaxLen
    /\ mvcc.orc[1].rel # "none" /\ mvcc.orc[1].size > 0
    /\ Len(ret.res.calls) = 2
    /\ CallsOf("async_write") = <<>>
    /\ Msgs = <<FinishedWithErr(task.cid,
                                TxnError(MvccOther(task.cmd.keys[2])), task.tag)>>


\* C23 (as stated): find_mvcc_infos_by_key ends for every write chain, a
\* chain with a write at commit_ts = 0 included: the subtraction commit_ts - 1
\* never goes below zero, the writes come in strictly decreasing commit_ts
\* order, each once, and the next seek is at the commit_ts of the last hit
\* minus one.
C23_FindTerminates ==
    ret.kind = "find" =>
        /\ phase # "panicked"
        /\ \A i, j \in 1 .. Len(ret.writes) :
              i < j => ret.writes[i].commit_ts > ret.writes[j].commit_ts
        /\ Len(ret.writes) <= Cardinality(store.writes[ret.key])
        /\ (phase = "seek" /\ ret.writes # <<>>) =>
              ret.ts = ret.writes[Len(ret.writes)].commit_ts - 1
        /\ phase = "done" =>
              {ret.writes[i].commit_ts : i \in 1 .. Len(ret.writes)}
                  = store.writes[ret.key]


\* C24: every wake_up is made by the worker inside the write processor,
\* before async_write is called and before any message is posted to the
\* scheduler; so the waiters of a command stay woken up when the engine then
\* refuses the write (FinishedWithErr) or fails it (WriteFinished with an
\* error).
C24_WakeUpFirst ==
    /\ \A i, j \in 1 .. Len(log) :
          (log[i].call = "wake_up" /\ log[j].call \in {"async_write", "on_msg"})
              => i < j
    /\ \A i \in 1 .. Len(log) : log[i].call = "wake_up" => log[i].thread = "worker"
    /\ WriteRan =>
          /\ CallsOf("wake_up") = ret.res.wake_ups
          /\ (WriteRejected \/ WriteAccepted) =>
                Len(CallsOf("async_write")) = 1

\* C24 witness: a Rollback released a lock and woke its waiters up, the
\* engine took the write and then failed it: WriteFinished carries the error.
C24_Witness ==
    /\ WriteAccepted /\ task.cmd.type = "Rollback" /\ ret.lock_mgr
    /\ Len(CallsOf("wake_up")) = 1 /\ CallsOf("wake_up")[1].hashes # <<>>
    /\ Msgs = <<WriteFinished(task.cid, ret.res.pr, EngineErr, task.tag)>>


\* The keys of the modifications handed to the engine so far, in order.
RECURSIVE ModifiedKeys(_)
ModifiedKeys(ws) ==
    IF ws = <<>> THEN <<>>
    ELSE [i \in 1 .. Len(ws[1].modifies) |-> ws[1].modifies[i].key]
         \o ModifiedKeys(Tail(ws))
\* The locks a ResolveLock had to resolve and that are still there: of a
\* transaction of its txn_status, at or after the scan_key it started from.
LeftFrom ==
    {k \in Keys : /\ (hist.from.some => k >= hist.from.v)
                  /\ store.locks[k].some
                  /\ store.locks[k].v.ts \in DOMAIN task.cmd.txn_status}

\* C25: with a scan in key order that includes its start key, a write half
\* that stops on the write size returns a scan_key that no unprocessed pair
\* of its batch lies before, and one that goes through its batch passes on
\* the last key of the batch or no scan_key; so, no lock being created and
\* every write succeeding, when the rounds end with Res no lock of a
\* transaction of txn_status is left at or after the first scan_key, and no
\* key was rolled back or committed twice.
C25_Complete ==
    /\ (WriteRan /\ ret.res.ret = "Ok") =>
          LET kl == task.cmd.key_locks
              n == Len(ret.res.calls)
              pr == ret.res.pr
          IN  /\ n >= 1
              /\ n < Len(kl) =>
                    /\ pr.kind = "NextCommand" /\ pr.cmd.scan_key.some
                    /\ \A i \in n + 1 .. Len(kl) : kl[i].key >= pr.cmd.scan_key.v
              /\ (n = Len(kl) /\ pr.kind = "NextCommand") =>
                    pr.cmd.scan_key = Some(kl[n].key)
              /\ (n = Len(kl) /\ pr.kind = "Res") => ~task.cmd.scan_key.some
              /\ \A i \in 1 .. n : mvcc.orc[i].rel # "none"
    /\ Distinct(ModifiedKeys(CallsOf("async_write")))
    /\ RLEnded => LeftFrom = {}

\* C25 witness: a ResolveLock that started from the second key went through
\* a write round stopped on the write size and ended with Res: the locks
\* from the second key on are gone, the matching lock before it is still
\* there.
C25_Witness ==
    /\ RLEnded /\ hist.from = Some(2) /\ hist.cutoffs >= 1 /\ hist.locks >= 2
    /\ LeftFrom = {}
    /\ store.locks[1].some /\ store.locks[1].v.ts \in DOMAIN task.cmd.txn_status
    /\ Len(ModifiedKeys(CallsOf("async_write"))) = hist.locks


\* C26: on every path of an execution the scheduler handle and the pool
\* handle of the Executor are each taken at most once, and never after they
\* were taken: no take_scheduler, take_pool or clone_pool aborts a thread
\* (the one abort left is the write processor's own). The pool handle is
\* taken on a snapshot error and for a write that goes to the engine, the
\* scheduler handle once by every execution that ran.
C26_SingleUse ==
    /\ exec.pool_takes <= 1 /\ exec.scheduler_takes <= 1
    /\ exec.sched_pool = (exec.pool_takes = 0)
    /\ exec.scheduler = (exec.scheduler_takes = 0)
    /\ phase = "panicked" => WriteRan /\ ret.res.ret = "Panic"
    /\ (Idle /\ phase = "executed") =>
          /\ exec.scheduler_takes = 1
          /\ exec.pool_takes =
                IF SnapshotFailed \/ (WriteRan /\ GoesToEngine(ret.res)) THEN 1 ELSE 0

\* C26 witness: a write went to the engine and WriteFinished was posted;
\* the pool handle and the scheduler handle were taken once each.
C26_Witness ==
    /\ WriteAccepted /\ Idle /\ phase = "executed"
    /\ exec.pool_takes = 1 /\ exec.scheduler_takes = 1
    /\ Len(Msgs) = 1 /\ Msgs[1].type = "WriteFinished"

====
